---- MODULE Spec2Model ----
(***************************************************************************)
(* Model of the agent concurrency runtime of ai-company-framework:         *)
(*   src/src/agents/base_agent.py  BaseAgent (poll loop, event loop,       *)
(*                                 bounded-retry dispatcher), ToolBox      *)
(*   src/src/orchestrator.py       Orchestrator (registry, routing,        *)
(*                                 supervised task group, shutdown)        *)
(*                                                                         *)
(* Scheduling is asyncio's: one task runs at a time, from one suspension   *)
(* point (await) to the next.  Every action below is one such step of one  *)
(* task.  asyncio.TaskGroup is modelled as the standard library defines    *)
(* it: when a member ends with an exception the group cancels every other  *)
(* member, waits for all of them to end, and raises; a cancelled task      *)
(* receives CancelledError at the await it is suspended in.  CancelledError*)
(* and SystemExit are BaseException, not Exception, so no "except          *)
(* Exception" clause of the program catches them.                          *)
(***************************************************************************)
EXTENDS Integers, Sequences, FiniteSets, TLC

\* ---------------------------------------------------------------- bounds
MaxEvents == 2          \* events created in one run
MaxRetryCfg == 2        \* largest configured max_retries
MaxCalls == 2           \* start() calls, and stop() calls, on one agent by a direct caller
MaxPollFails == 2       \* consecutive poll() calls of one agent that raise
MaxRetryDeep == 3       \* largest max_retries where the backoff delays are looked at
FloatMax == 4           \* largest finite float (the scaled stand-in for sys.float_info.max)

\* ------------------------------------------------------------- constants
AgentNames == {"product_manager", "developer"}
AgentOrder == <<"product_manager", "developer">>   \* dict insertion order
ClientOrder == <<"linear", "github", "slack">>
\* (kind, source) of the events the webhook endpoints build
WebhookEvents == {<<"linear_issue_created", "linear">>, <<"github_push", "github">>}
NoEvent == [id |-> 0, kind |-> "none", source |-> "none", payload |-> "none"]
EventIds == 1..MaxEvents

IDLE == "IDLE"
RUNNING == "RUNNING"
STOPPING == "STOPPING"
ERRORED == "ERRORED"
AgentStatus == {IDLE, RUNNING, STOPPING, ERRORED}

\* The shapes of an event's payload that the handlers tell apart: "full" has
\* the keys id, identifier and title with a string id; "id_list" has the same
\* three keys with a JSON array as id.
Payloads == {"full", "id_list"}

\* Event(kind, source, payload): the payload plays no part in the runtime,
\* only in the concrete handlers; id stands for the object's identity.
EventOf(id, kind, source, payload) ==
  [id |-> id, kind |-> kind, source |-> source, payload |-> payload]
Event(id, kind, source) == EventOf(id, kind, source, "full")

VARIABLES
  \* configuration (fixed after Init)
  cfgEnabled,     \* config["agents"][name].get("enabled"): "true" | "false" | "absent"
  max_retries,    \* BaseAgent._max_retries, per agent
  backoffNumeric, \* BaseAgent._retry_backoff is a number (asyncio.sleep accepts it)
  toolsCfg,       \* clients for which a credential is in the environment
  evBudget,       \* events the environment delivers in this run
  pollBudget,     \* calls of poll() in a row that the environment lets fail
  agentClass,     \* config["agents"][name]["class"], per agent
  config,         \* config/agents.yaml: the defaults layer and the entries' settings
  merged,         \* per agent: the config dict its constructor was given
  \* calculator.py (one call of one operation)
  calcIn,         \* the operation and its two arguments
  calcOut,        \* what the call returned or raised
  \* webhook_server.py (one request, handled by its endpoint)
  request,        \* the HTTP request and the webhook_secret given to create_app
  response,       \* the HTTP response of the endpoint
  \* BaseAgent
  status,         \* BaseAgent.status
  event_queue,    \* BaseAgent._event_queue
  startPc,        \* position of the task running start()
  plPc,           \* position of the _poll_loop task
  elPc,           \* position of the _event_loop task
  cur,            \* _event_loop / _dispatch_event local: event
  attempt,        \* _dispatch_event local: attempt
  inErr,          \* start()'s TaskGroup._errors is non-empty
  \* ProductManagerAgent, DeveloperAgent
  team_id,        \* ProductManagerAgent._team_id: "None" or the id the tracker gave
  workflow_states, \* ProductManagerAgent._workflow_states: "empty" or "cached"
  metaCalls,      \* per agent: calls of get_team_id and of get_workflow_states so far
  active_tickets, \* DeveloperAgent._active_tickets (ticket ids)
  assignee_id,    \* DeveloperAgent._assignee_id: "None" or a user id
  \* Orchestrator
  agents,         \* Orchestrator._agents (keys)
  runPc,          \* position of run()
  srv,            \* position of the server.serve() task
  waiter,         \* position of the _wait_for_shutdown task
  shutdown,       \* Orchestrator._shutdown is set
  outErr,         \* run()'s TaskGroup._errors holds an Exception
  outBase,        \* run()'s TaskGroup._base_error is set (SystemExit)
  runResult,      \* how run() left the TaskGroup block
  stopIdx,        \* finally: index of the next agent to stop
  closeIdx,       \* ToolBox.close: index of the next client
  cancelReq,      \* tasks with a pending cancel()
  \* history (observations, never read by the program)
  nextId,         \* events created so far + 1
  pushed,         \* per agent: events given to push_event, in order
  started,        \* per agent: events taken from the queue, in order
  invCount,       \* per agent, event id: handle_event invocations
  failCount,      \* per agent, event id: handle_event invocations that raised
  resolved,       \* per agent, event id: "none" | "handled" | "abandoned"
  stopCalls,      \* per agent: stop() calls
  closeCalls,     \* per client: close() calls
  starts,         \* per agent: start() calls that began running
  routed,         \* events given to _route_event, in order
  idlePushed,     \* per agent: ids of the events pushed while status was IDLE
  pollFails,      \* per agent: poll() calls that raised since the last one that returned
  offPush,        \* per agent, event id: pushed while status was not RUNNING (see PushNow)
  slept           \* per agent, event id: sum of the delays of the backoff sleeps begun

webVars == <<request, response>>
mergeVars == <<config, merged>>
calcVars == <<calcIn, calcOut>>
cfgFixed == <<cfgEnabled, max_retries, backoffNumeric, toolsCfg, evBudget, pollBudget,
              agentClass, assignee_id, mergeVars, calcVars, webVars>>
pmState == <<team_id, workflow_states, metaCalls>>
implState == <<pmState, active_tickets>>
cfgVars == <<cfgFixed, implState>>
agentVars == <<status, event_queue, startPc, plPc, elPc, cur, attempt, inErr>>
orchVars == <<agents, runPc, srv, waiter, shutdown, outErr, outBase, runResult,
              stopIdx, closeIdx>>
obsVars == <<routed, idlePushed, pollFails, offPush, slept>>
histVars == <<nextId, pushed, started, invCount, failCount, resolved,
              stopCalls, closeCalls, starts, obsVars>>
vars == <<cfgVars, agentVars, orchVars, cancelReq, histVars>>

\* Task names, for cancelReq.
TStart(a) == <<"start", a>>
TPoll(a) == <<"poll", a>>
TEvent(a) == <<"event", a>>
TServer == <<"server", "-">>
TWaiter == <<"waiter", "-">>

\* cancel() has been called on task t and CancelledError is not yet thrown
\* into it.  A task in this state takes no other step.
Pending(t) == \E i \in 1..Len(cancelReq) : cancelReq[i] = t
\* The wake-ups that cancel() schedules run in the order of the calls.
Delivered(t) == cancelReq # <<>> /\ Head(cancelReq) = t

LoopEnded == {"done", "faulted", "cancelled"}
StartEnded == {"returned", "raised", "cancelled"}
SrvEnded == {"faulted", "cancelled"}
WaiterEnded == {"raised", "cancelled"}


\* ------------------------------------------------------------ helpers
RECURSIVE SelectOrder(_, _)
\* The members of the sequence `order` that are in S, in order.
SelectOrder(order, S) ==
  IF order = <<>> THEN <<>>
  ELSE IF Head(order) \in S THEN <<Head(order)>> \o SelectOrder(Tail(order), S)
       ELSE SelectOrder(Tail(order), S)

\* self._agents.values(): the registered agents in insertion order.
AgentValues == SelectOrder(AgentOrder, agents)

\* Variant: a missing "enabled" key counts as disabled.
IsEnabled_DefaultFalse(flag) == flag = "true"

\* _instantiate_agents: agent_cfg.get("enabled", True)
IsEnabled(flag) == flag # "false"

\* _instantiate_agents: the names that end up in self._agents.
Registered(cfg) == {n \in AgentNames : IsEnabled(cfg[n])}

\* _build_toolbox + ToolBox.close: the clients that exist, in close order.
ClientValues == SelectOrder(ClientOrder, toolsCfg)

\* Variant: the event is put at the front of the queue.
QueuePut_Front(q, ev) == <<ev>> \o q

\* Variant: a queue of capacity one; a put on a full queue is lost.
QueuePut_Bounded(q, ev) == IF q = <<>> THEN <<ev>> ELSE q

\* BaseAgent.push_event: put_nowait on an unbounded queue.
QueuePut(q, ev) == Append(q, ev)

\* Variant: get returns the newest item.
QueueHead_Newest(q) == q[Len(q)]

\* asyncio.Queue.get: the oldest item, and the queue without it.
QueueHead(q) == Head(q)
QueueRest(q) == Tail(q)

\* Variant: one attempt too many, range(1, self._max_retries + 2).
AttemptRange_OffByOne(n) == 1..(n + 1)

\* _dispatch_event: range(1, self._max_retries + 1)
AttemptRange(n) == 1..n

\* BaseAgent.__init__: config.get("retry_backoff_seconds", 5), taken at its
\* default.
RetryBackoff == 5

\* Variant: the delay grows from zero.
Backoff_FromZero(k) == RetryBackoff * (k - 1)

\* Variant: the same delay after every attempt.
Backoff_Constant(k) == RetryBackoff

\* _dispatch_event line 139: the delay self._retry_backoff * attempt.
Backoff(k) == RetryBackoff * k

\* _dispatch_event: "if attempt < self._max_retries" (sleep before a retry)
SleepsBeforeRetry(k, n) == k < n

LoopContinues_Always(a) == TRUE

\* "while self.status == AgentStatus.RUNNING"
LoopContinues(a) == status[a] = RUNNING

\* TaskGroup._abort for start()'s group: cancel() on every member not done.
\* `ended` is the member whose end triggers the abort.
InnerAbort(a, ended) ==
  LET Live(t) == /\ t # ended
                 /\ IF t = TPoll(a) THEN plPc[a] \notin LoopEnded
                                    ELSE elPc[a] \notin LoopEnded
  IN SelectSeq(<<TPoll(a), TEvent(a)>>, Live)

\* TaskGroup._abort for run()'s group.
\* The members in creation order (lines 108-111).
OuterOrder ==
  <<TServer>> \o [i \in 1..Len(AgentValues) |-> TStart(AgentValues[i])] \o <<TWaiter>>
OuterMembers == {OuterOrder[i] : i \in 1..Len(OuterOrder)}
OuterEnded(t) ==
  IF t = TServer THEN srv \in SrvEnded
  ELSE IF t = TWaiter THEN waiter \in WaiterEnded
  ELSE startPc[t[2]] \in StartEnded
OuterAborting == outErr \/ outBase
OuterAbort(ended) ==
  LET Live(t) == t # ended /\ ~OuterEnded(t)
  IN IF OuterAborting THEN <<>> ELSE SelectSeq(OuterOrder, Live)

\* Variant: the block ends when the first member has ended.
GroupDone_First == \E t \in OuterMembers : OuterEnded(t)

\* TaskGroup.__aexit__ "while self._tasks": every member of run()'s group ended.
GroupDone == \A t \in OuterMembers : OuterEnded(t)

\* TaskGroup.__aexit__ of start(): both loops ended.
LoopsDone(a) == plPc[a] \in LoopEnded /\ elPc[a] \in LoopEnded

\* What is observed when push_event is called on an agent whose status is
\* not RUNNING: "dead" when its _event_loop task does not exist or has
\* ended, "window" when the task is still there; "no" in status RUNNING.
\* A later start() turns the mark into "dead_started" / "window_started".
PushNow(a) ==
  IF status[a] = RUNNING THEN "no"
  ELSE IF elPc[a] \in ({"none"} \cup LoopEnded) THEN "dead" ELSE "window"

StartedOver(m) ==
  IF m = "dead" THEN "dead_started"
  ELSE IF m = "window" THEN "window_started" ELSE m

Bump(f, a) == [f EXCEPT ![a] = @ + 1]
Bump2(f, a, i) == [f EXCEPT ![a][i] = @ + 1]

\* ----------------------------------------------------------- numbers
\* Python numbers, scaled down.  A float is a multiple of one half of
\* magnitude at most FloatMax, or an infinity; an int is any integer.  Both
\* are held as h, twice the value, so that an int has an even h.
Num(t, h) == [t |-> t, h |-> h]
NoNum == Num("none", 0)
InfH == 2 * FloatMax + 1
Inf == Num("float", InfH)
NegInf == Num("float", 0 - InfH)
Abs(n) == IF n < 0 THEN 0 - n ELSE n

\* What a call does: returns a number, or raises.
Returned(x) == [kind |-> "value", val |-> x]
Raised(e) == [kind |-> e, val |-> NoNum]
NoResult == [kind |-> "none", val |-> NoNum]
NoCall == [op |-> "none", a |-> NoNum, b |-> NoNum]

\* A request body, as the endpoints read it.  json: what request.json()
\* makes of the raw bytes ("invalid": it raises; "array": a JSON value that
\* is no object; "object").  The other fields are the members the endpoints
\* look up, "absent" when the object has no such member.
Body(json, action, type, challenge, event, eventType) ==
  [json |-> json, action |-> action, type |-> type, challenge |-> challenge,
   event |-> event, eventType |-> eventType]
NoBody == Body("none", "absent", "absent", "absent", "absent", "absent")

\* hmac.new(key, msg, hashlib.sha256).hexdigest(): a digest that is equal
\* for equal (key, msg) only.
Hmac(key, msg) == [key |-> key, msg |-> msg]
NoDigest == [key |-> "none", msg |-> NoBody]

\* The text of an X-Hub-Signature-256 header: ascii says whether every
\* character of it is ASCII.  Header("") is the default of a missing header.
HeaderText(ascii, prefix, digest) == [ascii |-> ascii, prefix |-> prefix, digest |-> digest]
MissingHeader == HeaderText(TRUE, "", NoDigest)

\* hmac.compare_digest on two str: TypeError unless both are ASCII.
CompareDigest(a, b) ==
  IF a.ascii /\ b.ascii THEN (IF a = b THEN "true" ELSE "false") ELSE "TypeError"

\* Variant: the key of the digest is not looked at.
VerifySignature_AnyKey(payload, signature, secret) ==
  IF signature.prefix = "sha256=" /\ signature.digest.msg = payload
  THEN "true" ELSE "false"

\* _verify_signature (webhook_server.py lines 22-24).
VerifySignature(payload, signature, secret) ==
  CompareDigest(HeaderText(TRUE, "sha256=", Hmac(secret, payload)), signature)

NoRequest ==
  [endpoint |-> "none", secret |-> "", sig |-> MissingHeader, ghEvent |-> "",
   body |-> NoBody]
NoResponse == [code |-> 0, val |-> <<>>]
Response(code, val) == [code |-> code, val |-> val]

\* ------------------------------------------------------------- Init
\* config/agents.yaml and the environment, as run() reads them: the enabled
\* flag of each entry (true, false or not given), max_retries of the
\* defaults layer, the credentials that are set; and evBudget, the number of
\* events the environment delivers in the run (webhook requests and poll
\* results).  Two registered agents run with one attempt per event and a
\* budget one lower, one registered agent with every max_retries and, with
\* the largest, a retry_backoff_seconds that is a number or is not.
\* pollBudget is the number of calls of poll() in a row that may fail.
ConfigInit ==
  \/ /\ cfgEnabled = [product_manager |-> "true", developer |-> "absent"]
     /\ max_retries = [a \in AgentNames |-> 1]
     /\ backoffNumeric = TRUE
     /\ toolsCfg = {"linear", "slack"}
     /\ evBudget = MaxEvents - 1
     /\ pollBudget = MaxPollFails - 1
  \/ /\ cfgEnabled = [product_manager |-> "absent", developer |-> "false"]
     /\ \E n \in 1..MaxRetryCfg : max_retries = [a \in AgentNames |-> n]
     /\ backoffNumeric \in IF max_retries["product_manager"] = MaxRetryCfg THEN BOOLEAN ELSE {TRUE}
     /\ toolsCfg \in {{}, {"linear", "slack"}}
     /\ evBudget = MaxEvents
     /\ pollBudget = MaxPollFails
  \/ /\ cfgEnabled = [product_manager |-> "false", developer |-> "false"]
     /\ max_retries = [a \in AgentNames |-> 1]
     /\ backoffNumeric = TRUE
     /\ toolsCfg = {"linear", "slack"}
     /\ evBudget = MaxEvents
     /\ pollBudget = MaxPollFails - 1

AgentInit ==
  /\ status = [a \in AgentNames |-> IDLE]
  /\ event_queue = [a \in AgentNames |-> <<>>]
  /\ startPc = [a \in AgentNames |-> "none"]
  /\ plPc = [a \in AgentNames |-> "none"]
  /\ elPc = [a \in AgentNames |-> "none"]
  /\ cur = [a \in AgentNames |-> NoEvent]
  /\ attempt = [a \in AgentNames |-> 0]
  /\ inErr = [a \in AgentNames |-> FALSE]

HistInit ==
  /\ nextId = 1
  /\ pushed = [a \in AgentNames |-> <<>>]
  /\ started = [a \in AgentNames |-> <<>>]
  /\ invCount = [a \in AgentNames |-> [i \in EventIds |-> 0]]
  /\ failCount = [a \in AgentNames |-> [i \in EventIds |-> 0]]
  /\ resolved = [a \in AgentNames |-> [i \in EventIds |-> "none"]]
  /\ stopCalls = [a \in AgentNames |-> 0]
  /\ closeCalls = [c \in {"linear", "github", "slack"} |-> 0]
  /\ starts = [a \in AgentNames |-> 0]
  /\ routed = <<>>
  /\ idlePushed = [a \in AgentNames |-> {}]
  /\ pollFails = [a \in AgentNames |-> 0]
  /\ offPush = [a \in AgentNames |-> [i \in EventIds |-> "no"]]
  /\ slept = [a \in AgentNames |-> [i \in EventIds |-> 0]]

OrchInit ==
  /\ srv = "none"
  /\ waiter = "none"
  /\ shutdown = FALSE
  /\ outErr = FALSE
  /\ outBase = FALSE
  /\ runResult = "none"
  /\ stopIdx = 1
  /\ closeIdx = 1
  /\ cancelReq = <<>>

\* The agents are instances of some subclass of BaseAgent: nothing is fixed
\* about its poll() and handle_event.
ClassInit ==
  /\ agentClass = [a \in AgentNames |-> "BaseAgent"]

\* A dict with string keys is a function on its set of keys; {} is <<>>.
\* The settings of agents.yaml play no part in the runs of the loops beyond
\* the values held in max_retries and backoffNumeric.
NoConfig == [defaults |-> <<>>, entry |-> [a \in AgentNames |-> <<>>],
             top |-> [a \in AgentNames |-> <<>>]]
MergeInit ==
  /\ config = NoConfig
  /\ merged = [a \in AgentNames |-> <<>>]
  /\ calcIn = NoCall
  /\ calcOut = NoResult

\* ProductManagerAgent.__init__ (line 18), DeveloperAgent.__init__ (line 21).
ImplInit ==
  /\ team_id = [a \in AgentNames |-> "None"]
  /\ workflow_states = [a \in AgentNames |-> "empty"]
  /\ metaCalls = [a \in AgentNames |-> [team |-> 0, states |-> 0]]
  /\ active_tickets = [a \in AgentNames |-> {}]
  /\ assignee_id = [a \in AgentNames |-> "None"]

\* No webhook request is looked at: the requests of a run reach the agents
\* as calls of _route_event (RouteEvent below).
WebInit ==
  /\ request = NoRequest
  /\ response = NoResponse

\* Orchestrator.__init__: no agent registered, run() not yet called.
Init ==
  /\ ConfigInit /\ ClassInit /\ MergeInit /\ AgentInit /\ ImplInit /\ HistInit /\ OrchInit /\ WebInit
  /\ agents = {}
  /\ runPc = "init"

\* ===================================================== concrete agents
\* agentClass names the class of an agent: "ProductManagerAgent",
\* "DeveloperAgent", or "BaseAgent" for a subclass about which nothing is
\* known (its poll() and handle_event may return, raise or push as they like).

\* self.tools.<c> is not None (Orchestrator._build_toolbox gives the agents
\* the clients whose credential is set).
HasTool(c) == c \in toolsCfg

\* Variant: the metadata is looked up until the workflow states are stored.
PmPollCaches_UntilStates(a) ==
  (team_id[a] = "None" \/ workflow_states[a] = "empty") /\ HasTool("linear")

\* Variant: the team is looked up whether or not the tracker client exists.
PmPollCaches_NoToolCheck(a) == team_id[a] = "None"

\* ProductManagerAgent.poll: "if self._team_id is None and self.tools.linear".
PmPollCaches(a) == team_id[a] = "None" /\ HasTool("linear")

\* Variant: only the tracker client is tested.
DevPollReturnsEarly_ToolOnly(a) == ~HasTool("linear")

\* DeveloperAgent.poll: "if not self.tools.linear or not self._assignee_id: return".
\* _assignee_id is set in __init__ (line 22); no statement of the class
\* assigns it afterwards, so no action below changes it.
DevPollReturnsEarly(a) == ~HasTool("linear") \/ assignee_id[a] = "None"

\* poll() can raise: a call of the tracker client fails (or, in
\* _cache_team_metadata, "assert self.tools.linear").
PollMayRaise(a) ==
  CASE agentClass[a] = "ProductManagerAgent" -> PmPollCaches(a)
    [] agentClass[a] = "DeveloperAgent" -> ~DevPollReturnsEarly(a)
    [] OTHER -> TRUE

\* poll() can call push_event (developer.py line 34).
PollMayPush(a) ==
  CASE agentClass[a] = "ProductManagerAgent" -> FALSE
    [] agentClass[a] = "DeveloperAgent" -> ~DevPollReturnsEarly(a)
    [] OTHER -> TRUE

\* What a call of poll() did, by the way it ended ("returned", "raised", or
\* "any" when either may have happened).  A ProductManagerAgent that caches
\* (_cache_team_metadata, lines 37-42) awaits get_team_id, stores the id,
\* awaits get_workflow_states and stores the states: "team_raised" when the
\* first call did not return, "states_raised" when the second did not,
\* "cached" when both returned.  Every other poll() is a "skip".
PollOutcomes(a, how) ==
  IF agentClass[a] = "ProductManagerAgent" /\ PmPollCaches(a)
  THEN (IF how = "returned" THEN {"cached"}
        ELSE IF how = "raised" THEN {"team_raised", "states_raised"}
        ELSE {"team_raised", "states_raised", "cached"})
  ELSE {"skip"}

\* The assignments of _cache_team_metadata (lines 39 and 41) and the calls made.
PollEffect(a, how) ==
  \E o \in PollOutcomes(a, how) :
    /\ team_id' = [team_id EXCEPT ![a] = IF o \in {"states_raised", "cached"} THEN "T1" ELSE @]
    /\ workflow_states' = [workflow_states EXCEPT ![a] = IF o = "cached" THEN "cached" ELSE @]
    /\ metaCalls' = [metaCalls EXCEPT
         ![a] = [team |-> @.team + (IF o = "skip" THEN 0 ELSE 1),
                 states |-> @.states + (IF o \in {"states_raised", "cached"} THEN 1 ELSE 0)]]

\* The event kinds whose handling uses the tracker.
PmKinds == {"idea_submitted", "feedback_received"}

\* _process_idea, _triage_feedback: "assert self.tools.linear and self._team_id".
PmReady(a) == HasTool("linear") /\ team_id[a] # "None"

\* _work_on_ticket, "if ticket_id in self._active_tickets" (line 51): the
\* membership test of a set hashes ticket_id, a TypeError for a list.
IdUnhashable(ev) == ev.payload = "id_list"

\* DeveloperAgent.handle_event enters _work_on_ticket (lines 40-41).
IsTicketWork(a, ev) == agentClass[a] = "DeveloperAgent" /\ ev.kind = "ticket_assigned"

\* Variant: _work_on_ticket without its "except Exception" (lines 84-85).
WorkOnTicketRaises_NoExcept(a, ev) == IsTicketWork(a, ev)

\* _work_on_ticket raises, on a payload with id, identifier and title: every
\* Exception of its try block is caught (lines 84-85); line 51, before the
\* try, raises for an id that cannot be hashed.
WorkOnTicketRaises(a, ev) == IsTicketWork(a, ev) /\ IdUnhashable(ev)

\* handle_event can raise an Exception.  ProductManagerAgent: the assert
\* fails, or create_issue / post_message fails.  DeveloperAgent: only
\* through _work_on_ticket.
HandleEventMayRaise(a, ev) ==
  CASE agentClass[a] = "ProductManagerAgent" -> ev.kind \in PmKinds
    [] agentClass[a] = "DeveloperAgent" -> WorkOnTicketRaises(a, ev)
    [] OTHER -> TRUE

\* handle_event can return.
HandleEventMayReturn(a, ev) ==
  CASE agentClass[a] = "ProductManagerAgent" -> (ev.kind \in PmKinds => PmReady(a))
    [] agentClass[a] = "DeveloperAgent" -> ~(IsTicketWork(a, ev) /\ IdUnhashable(ev))
    [] OTHER -> TRUE

\* _work_on_ticket: self._active_tickets.add(ticket_id) (line 53) once the
\* membership test of line 51 has passed, discard(ticket_id) in its finally
\* (lines 86-87).  The ticket id is the event's id.
TicketsOnInvoke(a, ev) ==
  IF IsTicketWork(a, ev) /\ ~IdUnhashable(ev)
  THEN active_tickets[a] \cup {ev.id} ELSE active_tickets[a]
TicketsOnExit(a, ev) ==
  IF IsTicketWork(a, ev) /\ ~IdUnhashable(ev)
  THEN active_tickets[a] \ {ev.id} ELSE active_tickets[a]

\* =========================================================== BaseAgent
\* Variant: the event loop ends after one iteration.
EventLoopTop_Once(a) == "done"

\* The loop check made after an iteration of _event_loop: back to the wait
\* for the queue, or out of the loop.
EventLoopTop(a) == IF LoopContinues(a) THEN "wait" ELSE "done"

\* start(), up to the suspension in TaskGroup.__aexit__ (lines 78-83), for
\* every agent of the set S: status, and one task per loop.
StartBody(S) ==
  /\ status' = [a \in AgentNames |-> IF a \in S THEN RUNNING ELSE status[a]]
  /\ startPc' = [a \in AgentNames |-> IF a \in S THEN "group" ELSE startPc[a]]
  /\ plPc' = [a \in AgentNames |-> IF a \in S THEN "created" ELSE plPc[a]]
  /\ elPc' = [a \in AgentNames |-> IF a \in S THEN "created" ELSE elPc[a]]
  /\ inErr' = [a \in AgentNames |-> IF a \in S THEN FALSE ELSE inErr[a]]
  /\ starts' = [a \in AgentNames |-> IF a \in S THEN starts[a] + 1 ELSE starts[a]]
  /\ offPush' = [a \in AgentNames |->
       IF a \in S THEN [i \in EventIds |-> StartedOver(offPush[a][i])] ELSE offPush[a]]

\* _poll_loop: the first evaluation of the while condition, then poll() is
\* entered (line 110-112).
PollBegin(a) ==
  /\ plPc[a] = "created"
  /\ ~Pending(TPoll(a))
  /\ plPc' = [plPc EXCEPT ![a] = IF LoopContinues(a) THEN "polling" ELSE "done"]
  /\ UNCHANGED <<cfgVars, status, event_queue, startPc, elPc, cur, attempt, inErr,
                 orchVars, cancelReq, histVars>>

\* poll() of a concrete agent calls self.push_event (developer.py line 34).
PollPush(a) ==
  /\ plPc[a] = "polling"
  /\ ~Pending(TPoll(a))
  /\ PollMayPush(a)
  /\ nextId <= evBudget
  /\ LET ev == Event(nextId, "ticket_assigned", "poll") IN
       /\ event_queue' = [event_queue EXCEPT ![a] = QueuePut(@, ev)]
       /\ pushed' = [pushed EXCEPT ![a] = Append(@, ev)]
  /\ idlePushed' = [idlePushed EXCEPT ![a] = IF status[a] = IDLE THEN @ \cup {nextId} ELSE @]
  /\ offPush' = [offPush EXCEPT ![a][nextId] = PushNow(a)]
  /\ UNCHANGED <<routed, pollFails, slept>>
  /\ nextId' = nextId + 1
  /\ UNCHANGED <<cfgVars, status, startPc, plPc, elPc, cur, attempt, inErr,
                 orchVars, cancelReq>>
  /\ UNCHANGED <<started, invCount, failCount, resolved, stopCalls,
                 closeCalls, starts>>

\* poll() returns (line 112); the loop goes to
\* asyncio.sleep(self._poll_interval) (line 115).
PollEnd(a) ==
  /\ plPc[a] = "polling"
  /\ ~Pending(TPoll(a))
  /\ plPc' = [plPc EXCEPT ![a] = "sleep"]
  /\ pollFails' = [pollFails EXCEPT ![a] = 0]
  /\ PollEffect(a, "returned")
  /\ UNCHANGED <<cfgFixed, active_tickets, status, event_queue, startPc, elPc, cur, attempt, inErr,
                 orchVars, cancelReq>>
  /\ UNCHANGED <<nextId, pushed, started, invCount, failCount, resolved,
                 stopCalls, closeCalls, starts, routed, idlePushed, offPush, slept>>

\* Where _poll_loop is after poll() raised an Exception: line 113 catches
\* it, line 114 logs it, and control falls to the sleep of line 115.
AfterPollRaise_Escapes == "faulted"

AfterPollRaise == "sleep"

\* poll() raises an Exception (lines 112-114).
PollRaise(a) ==
  /\ plPc[a] = "polling"
  /\ ~Pending(TPoll(a))
  /\ PollMayRaise(a)
  /\ pollFails[a] < pollBudget
  /\ plPc' = [plPc EXCEPT ![a] = AfterPollRaise]
  /\ pollFails' = [pollFails EXCEPT ![a] = @ + 1]
  /\ PollEffect(a, "raised")
  /\ UNCHANGED <<cfgFixed, active_tickets, status, event_queue, startPc, elPc, cur, attempt, inErr,
                 orchVars, cancelReq>>
  /\ UNCHANGED <<nextId, pushed, started, invCount, failCount, resolved,
                 stopCalls, closeCalls, starts, routed, idlePushed, offPush, slept>>

\* The sleep ends; the while condition is evaluated again (line 110).
PollWake(a) ==
  /\ plPc[a] = "sleep"
  /\ ~Pending(TPoll(a))
  /\ plPc' = [plPc EXCEPT ![a] = IF LoopContinues(a) THEN "polling" ELSE "done"]
  /\ UNCHANGED <<cfgVars, status, event_queue, startPc, elPc, cur, attempt, inErr,
                 orchVars, cancelReq, histVars>>

\* An exception leaves _poll_loop: raised outside the try of lines 111-114
\* (asyncio.sleep on an interval that is no number) or inside its except
\* body.  The task ends with the exception; TaskGroup._on_task_done records
\* it and aborts the group.
PollLoopFault(a) ==
  /\ plPc[a] = "polling"
  /\ ~Pending(TPoll(a))
  /\ plPc' = [plPc EXCEPT ![a] = "faulted"]
  /\ inErr' = [inErr EXCEPT ![a] = TRUE]
  /\ cancelReq' = cancelReq \o InnerAbort(a, TPoll(a))
  /\ PollEffect(a, "any")
  /\ UNCHANGED <<cfgFixed, active_tickets, status, event_queue, startPc, elPc, cur, attempt,
                 orchVars, histVars>>

\* CancelledError is thrown into _poll_loop at its await; nothing catches it.
PollCancelled(a) ==
  /\ Delivered(TPoll(a))
  /\ plPc[a] \notin LoopEnded
  /\ plPc' = [plPc EXCEPT ![a] = "cancelled"]
  /\ cancelReq' = Tail(cancelReq)
  /\ IF plPc[a] = "polling" THEN PollEffect(a, "raised") ELSE UNCHANGED pmState
  /\ UNCHANGED <<cfgFixed, active_tickets, status, event_queue, startPc, elPc, cur, attempt, inErr,
                 orchVars, histVars>>

\* _dispatch_event: the for statement of line 126 takes its next value and
\* handle_event is invoked (line 128), or the range is exhausted and line 140
\* logs the event as given up; then _event_loop evaluates its condition.
ForNext(a, k) ==
  IF k \in AttemptRange(max_retries[a])
  THEN /\ attempt' = [attempt EXCEPT ![a] = k]
       /\ invCount' = Bump2(invCount, a, cur'[a].id)
       /\ elPc' = [elPc EXCEPT ![a] = "handling"]
       /\ active_tickets' = [active_tickets EXCEPT ![a] = TicketsOnInvoke(a, cur'[a])]
       /\ UNCHANGED resolved
  ELSE /\ attempt' = [attempt EXCEPT ![a] = 0]
       /\ resolved' = [resolved EXCEPT ![a][cur'[a].id] = "abandoned"]
       /\ elPc' = [elPc EXCEPT ![a] = EventLoopTop(a)]
       /\ active_tickets' = [active_tickets EXCEPT ![a] = TicketsOnExit(a, cur'[a])]
       /\ UNCHANGED invCount

\* _event_loop: the first evaluation of the while condition (line 118).
EventBegin(a) ==
  /\ elPc[a] = "created"
  /\ ~Pending(TEvent(a))
  /\ elPc' = [elPc EXCEPT ![a] = EventLoopTop(a)]
  /\ UNCHANGED <<cfgVars, status, event_queue, startPc, plPc, cur, attempt, inErr,
                 orchVars, cancelReq, histVars>>

\* wait_for(self._event_queue.get(), 1.0) returns an event (line 120) and
\* _dispatch_event starts on it (line 123).
EventDequeue(a) ==
  /\ elPc[a] = "wait"
  /\ ~Pending(TEvent(a))
  /\ event_queue[a] # <<>>
  /\ cur' = [cur EXCEPT ![a] = QueueHead(event_queue[a])]
  /\ event_queue' = [event_queue EXCEPT ![a] = QueueRest(@)]
  /\ started' = [started EXCEPT ![a] = Append(@, QueueHead(event_queue[a]))]
  /\ ForNext(a, 1)
  /\ UNCHANGED <<cfgFixed, pmState, status, startPc, plPc, inErr, orchVars, cancelReq>>
  /\ UNCHANGED <<nextId, pushed, failCount, stopCalls, closeCalls, starts>>
  /\ UNCHANGED obsVars

\* wait_for times out on an empty queue (line 121-122): continue.
EventTimeout(a) ==
  /\ elPc[a] = "wait"
  /\ ~Pending(TEvent(a))
  /\ event_queue[a] = <<>>
  /\ elPc' = [elPc EXCEPT ![a] = EventLoopTop(a)]
  /\ UNCHANGED <<cfgVars, status, event_queue, startPc, plPc, cur, attempt, inErr,
                 orchVars, cancelReq, histVars>>

\* handle_event returns (line 128-129): the dispatch ends in success.
HandlerReturn(a) ==
  /\ elPc[a] = "handling"
  /\ ~Pending(TEvent(a))
  /\ HandleEventMayReturn(a, cur[a])
  /\ resolved' = [resolved EXCEPT ![a][cur[a].id] = "handled"]
  /\ attempt' = [attempt EXCEPT ![a] = 0]
  /\ elPc' = [elPc EXCEPT ![a] = EventLoopTop(a)]
  /\ active_tickets' = [active_tickets EXCEPT ![a] = TicketsOnExit(a, cur[a])]
  /\ UNCHANGED <<cfgFixed, pmState, status, event_queue, startPc, plPc, cur, inErr,
                 orchVars, cancelReq>>
  /\ UNCHANGED <<nextId, pushed, started, invCount, failCount, stopCalls,
                 closeCalls, starts>>
  /\ UNCHANGED obsVars

BackoffSleepRaises_Always(a) == TRUE

\* After a failed attempt: line 138 lets the sleep of line 139 run, and
\* asyncio.sleep raises TypeError on a delay that is no number.
BackoffSleepRaises(a) ==
  ~backoffNumeric /\ SleepsBeforeRetry(attempt[a], max_retries[a])

\* handle_event raises an Exception (line 130-139): logged; a sleep of
\* retry_backoff * attempt when attempts remain, else on to the for statement.
HandlerRaise(a) ==
  /\ elPc[a] = "handling"
  /\ ~Pending(TEvent(a))
  /\ HandleEventMayRaise(a, cur[a])
  /\ ~BackoffSleepRaises(a)
  /\ failCount' = Bump2(failCount, a, cur[a].id)
  /\ UNCHANGED cur
  /\ IF SleepsBeforeRetry(attempt[a], max_retries[a])
     THEN /\ elPc' = [elPc EXCEPT ![a] = "backoff"]
          /\ slept' = [slept EXCEPT ![a][cur[a].id] = @ + Backoff(attempt[a])]
          /\ active_tickets' = [active_tickets EXCEPT ![a] = TicketsOnExit(a, cur[a])]
          /\ UNCHANGED <<attempt, invCount, resolved>>
     ELSE ForNext(a, attempt[a] + 1) /\ UNCHANGED slept
  /\ UNCHANGED <<cfgFixed, pmState, status, event_queue, startPc, plPc, inErr,
                 orchVars, cancelReq>>
  /\ UNCHANGED <<nextId, pushed, started, stopCalls, closeCalls, starts>>
  /\ UNCHANGED <<routed, idlePushed, pollFails, offPush>>

\* The backoff sleep of line 139 ends; the for statement goes on.
BackoffDone(a) ==
  /\ elPc[a] = "backoff"
  /\ ~Pending(TEvent(a))
  /\ UNCHANGED cur
  /\ ForNext(a, attempt[a] + 1)
  /\ UNCHANGED <<cfgFixed, pmState, status, event_queue, startPc, plPc, inErr,
                 orchVars, cancelReq>>
  /\ UNCHANGED <<nextId, pushed, started, failCount, stopCalls, closeCalls, starts>>
  /\ UNCHANGED obsVars

\* An exception leaves _event_loop: handle_event raised, attempts remain,
\* and in the except body asyncio.sleep(self._retry_backoff * attempt)
\* (line 139) raises TypeError because the configured backoff is no number.
EventLoopFault(a) ==
  /\ elPc[a] = "handling"
  /\ ~Pending(TEvent(a))
  /\ HandleEventMayRaise(a, cur[a])
  /\ BackoffSleepRaises(a)
  /\ failCount' = Bump2(failCount, a, cur[a].id)
  /\ elPc' = [elPc EXCEPT ![a] = "faulted"]
  /\ inErr' = [inErr EXCEPT ![a] = TRUE]
  /\ cancelReq' = cancelReq \o InnerAbort(a, TEvent(a))
  /\ active_tickets' = [active_tickets EXCEPT ![a] = TicketsOnExit(a, cur[a])]
  /\ UNCHANGED <<cfgFixed, pmState, status, event_queue, startPc, plPc, cur, attempt, orchVars>>
  /\ UNCHANGED <<nextId, pushed, started, invCount, resolved, stopCalls,
                 closeCalls, starts>>
  /\ UNCHANGED obsVars

\* CancelledError is thrown into _event_loop at its await: the queue wait,
\* the await inside handle_event, or the backoff sleep.  "except Exception"
\* (line 130) does not catch it.
EventCancelled(a) ==
  /\ Delivered(TEvent(a))
  /\ elPc[a] \notin LoopEnded
  /\ elPc' = [elPc EXCEPT ![a] = "cancelled"]
  /\ cancelReq' = Tail(cancelReq)
  /\ active_tickets' = [active_tickets EXCEPT ![a] =
       IF elPc[a] = "handling" THEN TicketsOnExit(a, cur[a]) ELSE @]
  /\ UNCHANGED <<cfgFixed, pmState, status, event_queue, startPc, plPc, cur, attempt, inErr,
                 orchVars, histVars>>

\* CancelledError reaches start() while it waits in TaskGroup.__aexit__: the
\* group aborts, cancelling both loops, and goes on waiting for them.
StartCancelled(a) ==
  /\ Delivered(TStart(a))
  /\ startPc[a] = "group"
  /\ startPc' = [startPc EXCEPT ![a] = "aborting"]
  /\ cancelReq' = Tail(cancelReq)
                    \o (IF inErr[a] THEN <<>> ELSE InnerAbort(a, TStart(a)))
  /\ UNCHANGED <<cfgVars, status, event_queue, plPc, elPc, cur, attempt, inErr,
                 orchVars, histVars>>

\* Variant: a cancellation of start() hides the errors of its loops.
StartOutcome_CancelFirst(a) ==
  IF startPc[a] = "aborting" THEN "cancelled"
  ELSE IF inErr[a] THEN "raised"
  ELSE "returned"

\* How start() ends once both loops have ended (lines 84-88 and
\* TaskGroup.__aexit__): errors first, then a cancellation, else a return.
StartOutcome(a) ==
  IF inErr[a] THEN "raised"
  ELSE IF startPc[a] = "aborting" THEN "cancelled"
  ELSE "returned"

\* Both loops have ended: TaskGroup.__aexit__ returns or raises, "except*
\* Exception" sets ERRORED and re-raises (lines 84-88).  When start() is a
\* member of run()'s group, its exception aborts that group.
StartFinish(a) ==
  /\ startPc[a] \in {"group", "aborting"}
  /\ ~Pending(TStart(a))
  /\ LoopsDone(a)
  /\ startPc' = [startPc EXCEPT ![a] = StartOutcome(a)]
  /\ status' = [status EXCEPT ![a] = IF StartOutcome(a) = "raised" THEN ERRORED ELSE @]
  /\ IF runPc = "group" /\ StartOutcome(a) = "raised"
     THEN /\ cancelReq' = cancelReq \o OuterAbort(TStart(a))
          /\ outErr' = TRUE
     ELSE UNCHANGED <<cancelReq, outErr>>
  /\ UNCHANGED <<cfgVars, event_queue, plPc, elPc, cur, attempt, inErr, histVars>>
  /\ UNCHANGED <<agents, runPc, srv, waiter, shutdown, outBase, runResult,
                 stopIdx, closeIdx>>

\* ======================================================== Orchestrator
\* run() from its first line to the suspension in TaskGroup.__aexit__
\* (lines 86-111): the toolbox is built, the enabled agents are registered,
\* and one task is created for the server, for each agent's start() and
\* for the shutdown waiter.  The event loop runs callbacks in the order they
\* were scheduled, so each of these tasks takes its first step, in creation
\* order, before any signal, request or timer is served: the server serves,
\* every start() reaches its TaskGroup, the waiter waits.
RunEnter ==
  /\ runPc = "init"
  /\ agents' = Registered(cfgEnabled)
  /\ StartBody(Registered(cfgEnabled))
  /\ srv' = "serving"
  /\ waiter' = "waiting"
  /\ runPc' = "group"
  /\ UNCHANGED <<cfgVars, event_queue, cur, attempt>>
  /\ UNCHANGED <<shutdown, outErr, outBase, runResult, stopIdx, closeIdx, cancelReq>>
  /\ UNCHANGED <<nextId, pushed, started, invCount, failCount, resolved,
                 stopCalls, closeCalls>>
  /\ UNCHANGED <<routed, idlePushed, pollFails, slept>>

\* An exception in run() after the ToolBox is built (line 87) and before the
\* try statement (line 106): _instantiate_agents on an entry whose class
\* cannot be imported (lines 65-66), int() of a PORT that is no number
\* (line 96).  Nothing catches it: run() raises, its finally block is not
\* entered.  The agents registered before the fault stay in the registry.
BootstrapFault ==
  /\ runPc = "init"
  /\ agents' \in {{}, Registered(cfgEnabled)}
  /\ runPc' = "aborted"
  /\ runResult' = "Exception"
  /\ UNCHANGED <<cfgVars, agentVars, cancelReq, histVars>>
  /\ UNCHANGED <<srv, waiter, shutdown, outErr, outBase, stopIdx, closeIdx>>

\* _route_event (lines 78-81), called by a webhook endpoint of the server:
\* push_event on every registered agent.  No await: one step.
RouteTargets == agents

RouteEvent(kind, source) ==
  /\ srv = "serving"
  /\ ~Pending(TServer)
  /\ nextId <= evBudget
  /\ LET ev == Event(nextId, kind, source) IN
       /\ event_queue' = [a \in AgentNames |->
            IF a \in RouteTargets THEN QueuePut(event_queue[a], ev) ELSE event_queue[a]]
       /\ pushed' = [a \in AgentNames |->
            IF a \in RouteTargets THEN Append(pushed[a], ev) ELSE pushed[a]]
       /\ routed' = Append(routed, ev)
  /\ idlePushed' = [a \in AgentNames |->
       IF a \in RouteTargets /\ status[a] = IDLE THEN idlePushed[a] \cup {nextId}
       ELSE idlePushed[a]]
  /\ offPush' = [a \in AgentNames |->
       IF a \in RouteTargets THEN [offPush[a] EXCEPT ![nextId] = PushNow(a)]
       ELSE offPush[a]]
  /\ UNCHANGED <<pollFails, slept>>
  /\ nextId' = nextId + 1
  /\ UNCHANGED <<cfgVars, status, startPc, plPc, elPc, cur, attempt, inErr,
                 orchVars, cancelReq>>
  /\ UNCHANGED <<started, invCount, failCount, resolved, stopCalls, closeCalls, starts>>

\* server.serve() ends with an exception: run()'s group aborts.
ServerFault ==
  /\ srv = "serving"
  /\ ~Pending(TServer)
  /\ srv' = "faulted"
  /\ cancelReq' = cancelReq \o OuterAbort(TServer)
  /\ outErr' = TRUE
  /\ UNCHANGED <<cfgVars, agentVars, histVars>>
  /\ UNCHANGED <<agents, runPc, waiter, shutdown, outBase, runResult, stopIdx, closeIdx>>

ServerCancelled ==
  /\ Delivered(TServer)
  /\ srv \notin SrvEnded
  /\ srv' = "cancelled"
  /\ cancelReq' = Tail(cancelReq)
  /\ UNCHANGED <<cfgVars, agentVars, histVars>>
  /\ UNCHANGED <<agents, runPc, waiter, shutdown, outErr, outBase, runResult,
                 stopIdx, closeIdx>>

\* SIGINT or SIGTERM: the handler of line 103 sets self._shutdown.
SignalShutdown ==
  /\ runPc = "group"
  /\ ~shutdown
  /\ shutdown' = TRUE
  /\ UNCHANGED <<cfgVars, agentVars, cancelReq, histVars>>
  /\ UNCHANGED <<agents, runPc, srv, waiter, outErr, outBase, runResult,
                 stopIdx, closeIdx>>

\* _wait_for_shutdown raises SystemExit(0) (line 121): a base error of
\* run()'s group, which aborts.
WaiterRaises ==
  /\ waiter' = "raised"
  /\ outBase' = TRUE
  /\ cancelReq' = cancelReq \o OuterAbort(TWaiter)
  /\ UNCHANGED <<cfgVars, agentVars, histVars>>
  /\ UNCHANGED <<agents, runPc, srv, shutdown, outErr, runResult, stopIdx, closeIdx>>

\* self._shutdown.wait() returns (line 120).
WaiterWake ==
  /\ waiter = "waiting"
  /\ ~Pending(TWaiter)
  /\ shutdown
  /\ WaiterRaises

WaiterCancelled ==
  /\ Delivered(TWaiter)
  /\ waiter \notin WaiterEnded
  /\ waiter' = "cancelled"
  /\ cancelReq' = Tail(cancelReq)
  /\ UNCHANGED <<cfgVars, agentVars, histVars>>
  /\ UNCHANGED <<agents, runPc, srv, shutdown, outErr, outBase, runResult,
                 stopIdx, closeIdx>>

\* What TaskGroup.__aexit__ of run() raises once every member has ended:
\* the base error first, then the collected errors.
UnwindResult ==
  IF outBase THEN "SystemExit"
  ELSE IF outErr THEN "ExceptionGroup"
  ELSE "normal"

\* run()'s TaskGroup block ends (line 107-111) and control enters finally.
RunUnwind ==
  /\ runPc = "group"
  /\ GroupDone
  /\ runPc' = "finally"
  /\ runResult' = UnwindResult
  /\ UNCHANGED <<cfgVars, agentVars, cancelReq, histVars>>
  /\ UNCHANGED <<agents, srv, waiter, shutdown, outErr, outBase, stopIdx, closeIdx>>

\* Variant: stop() puts the agent back to IDLE.
Stop_ToIdle(a) ==
  /\ status' = [status EXCEPT ![a] = IDLE]
  /\ stopCalls' = Bump(stopCalls, a)

\* BaseAgent.stop (lines 90-92).
Stop(a) ==
  /\ status' = [status EXCEPT ![a] = STOPPING]
  /\ stopCalls' = Bump(stopCalls, a)

\* finally of run(): "for agent in self._agents.values(): await agent.stop()"
\* (lines 113-114), one agent per step.
StopNext ==
  /\ runPc = "finally"
  /\ stopIdx <= Len(AgentValues)
  /\ Stop(AgentValues[stopIdx])
  /\ stopIdx' = stopIdx + 1
  /\ UNCHANGED <<cfgVars, event_queue, startPc, plPc, elPc, cur, attempt, inErr,
                 cancelReq>>
  /\ UNCHANGED <<agents, runPc, srv, waiter, shutdown, outErr, outBase, runResult,
                 closeIdx>>
  /\ UNCHANGED <<nextId, pushed, started, invCount, failCount, resolved,
                 closeCalls, starts>>
  /\ UNCHANGED obsVars

\* Variant: the toolbox is closed without waiting for the stop loop.
MayClose_Early == TRUE

\* finally of run(): the stop loop of lines 113-114 is over, so
\* self._tools.close() may be called (line 115-116).
MayClose == stopIdx > Len(AgentValues)

\* ToolBox.close (lines 50-53): "await client.close()" on the next client
\* that is present.
CloseNext ==
  /\ runPc = "finally"
  /\ MayClose
  /\ closeIdx <= Len(ClientValues)
  /\ closeCalls' = [closeCalls EXCEPT ![ClientValues[closeIdx]] = @ + 1]
  /\ closeIdx' = closeIdx + 1
  /\ UNCHANGED <<cfgVars, agentVars, cancelReq>>
  /\ UNCHANGED <<agents, runPc, srv, waiter, shutdown, outErr, outBase, runResult,
                 stopIdx>>
  /\ UNCHANGED <<nextId, pushed, started, invCount, failCount, resolved,
                 stopCalls, starts>>
  /\ UNCHANGED obsVars

\* run() leaves finally (line 117) and the exception of the TaskGroup block
\* propagates to the caller.
RunExit ==
  /\ runPc = "finally"
  /\ MayClose
  /\ closeIdx > Len(ClientValues)
  /\ runPc' = "exited"
  /\ UNCHANGED <<cfgVars, agentVars, cancelReq, histVars>>
  /\ UNCHANGED <<agents, srv, waiter, shutdown, outErr, outBase, runResult,
                 stopIdx, closeIdx>>

AgentStep(a) ==
  \/ PollBegin(a)
  \/ PollPush(a)
  \/ PollEnd(a)
  \/ PollRaise(a)
  \/ PollWake(a)
  \/ PollLoopFault(a)
  \/ PollCancelled(a)
  \/ EventBegin(a)
  \/ EventDequeue(a)
  \/ EventTimeout(a)
  \/ HandlerReturn(a)
  \/ HandlerRaise(a)
  \/ BackoffDone(a)
  \/ EventLoopFault(a)
  \/ EventCancelled(a)
  \/ StartFinish(a)

Next ==
  \/ RunEnter
  \/ BootstrapFault
  \/ \E w \in WebhookEvents : RouteEvent(w[1], w[2])
  \/ ServerFault
  \/ ServerCancelled
  \/ SignalShutdown
  \/ WaiterWake
  \/ WaiterCancelled
  \/ \E a \in AgentNames : AgentStep(a)
  \/ \E a \in AgentNames : StartCancelled(a)
  \/ RunUnwind
  \/ StopNext
  \/ CloseNext
  \/ RunExit

\* The program as run by Orchestrator.run().
Spec == Init /\ [][Next]_vars

\* ====================================================== direct callers
\* BaseAgent used without the Orchestrator: a caller constructs one agent
\* and calls start(), stop() and push_event in any order.

\* "await agent.start()" by the caller, up to the suspension in its
\* TaskGroup; a new call only once the previous one has ended.
ApiStart(a) ==
  /\ runPc = "caller"
  /\ startPc[a] \in {"none"} \cup StartEnded
  /\ starts[a] < MaxCalls
  /\ StartBody({a})
  /\ UNCHANGED <<cfgVars, event_queue, cur, attempt, orchVars, cancelReq>>
  /\ UNCHANGED <<nextId, pushed, started, invCount, failCount, resolved,
                 stopCalls, closeCalls>>
  /\ UNCHANGED <<routed, idlePushed, pollFails, slept>>

\* "await agent.stop()" by the caller.
ApiStop(a) ==
  /\ runPc = "caller"
  /\ stopCalls[a] < MaxCalls
  /\ Stop(a)
  /\ UNCHANGED <<cfgVars, event_queue, startPc, plPc, elPc, cur, attempt, inErr,
                 orchVars, cancelReq>>
  /\ UNCHANGED <<nextId, pushed, started, invCount, failCount, resolved,
                 closeCalls, starts>>
  /\ UNCHANGED obsVars

\* "agent.push_event(Event(kind, source, ...))" by the caller (lines 94-95).
ApiPushPayload(a, kind, source, payload) ==
  /\ runPc = "caller"
  /\ nextId <= evBudget
  /\ LET ev == EventOf(nextId, kind, source, payload) IN
       /\ event_queue' = [event_queue EXCEPT ![a] = QueuePut(@, ev)]
       /\ pushed' = [pushed EXCEPT ![a] = Append(@, ev)]
  /\ idlePushed' = [idlePushed EXCEPT ![a] = IF status[a] = IDLE THEN @ \cup {nextId} ELSE @]
  /\ offPush' = [offPush EXCEPT ![a][nextId] = PushNow(a)]
  /\ UNCHANGED <<routed, pollFails, slept>>
  /\ nextId' = nextId + 1
  /\ UNCHANGED <<cfgVars, status, startPc, plPc, elPc, cur, attempt, inErr,
                 orchVars, cancelReq>>
  /\ UNCHANGED <<started, invCount, failCount, resolved, stopCalls, closeCalls, starts>>
ApiPush(a, kind, source) == ApiPushPayload(a, kind, source, "full")

\* The agents the direct caller constructs.
CallerAgents == {"product_manager"}

\* One agent, constructed (BaseAgent.__init__, lines 64-72) and not started.
InitAgent ==
  /\ cfgEnabled = [product_manager |-> "true", developer |-> "false"]
  /\ \E n \in 1..MaxRetryCfg : max_retries = [a \in AgentNames |-> n]
  /\ backoffNumeric \in IF max_retries["product_manager"] = MaxRetryCfg THEN BOOLEAN ELSE {TRUE}
  /\ toolsCfg = {}
  /\ evBudget = MaxEvents
  /\ pollBudget = IF max_retries["product_manager"] = 1 THEN MaxPollFails - 1 ELSE 0
  /\ ClassInit /\ MergeInit /\ AgentInit /\ ImplInit /\ HistInit /\ OrchInit /\ WebInit
  /\ agents = CallerAgents
  /\ runPc = "caller"

NextAgent ==
  \/ \E a \in AgentNames : a \in agents /\ ApiStart(a)
  \/ \E a \in AgentNames : a \in agents /\ ApiStop(a)
  \/ \E a \in AgentNames, w \in WebhookEvents : a \in agents /\ ApiPush(a, w[1], w[2])
  \/ \E a \in AgentNames : AgentStep(a)

\* BaseAgent driven by a direct caller.
SpecAgent == InitAgent /\ [][NextAgent]_vars

\* ===================================================== webhook_server.py
\* The requests looked at.  Secrets and signing keys; bodies of the code-host
\* endpoint and of the chat endpoint; signature headers for a request.
Secrets == {"", "k1"}
GithubBodies ==
  {Body("object", act, "absent", "absent", "absent", "absent") :
     act \in {"absent", "", "opened"}}
  \cup {Body("array", "absent", "absent", "absent", "absent", "absent"),
        Body("invalid", "absent", "absent", "absent", "absent", "absent")}
GithubEvents == {"", "push"}
SignatureHeaders(body) ==
  {MissingHeader,
   HeaderText(TRUE, "sha256=", Hmac("k1", body)),
   HeaderText(TRUE, "sha256=", Hmac("k2", body)),
   HeaderText(TRUE, "sha256=", Hmac("k1", NoBody)),
   HeaderText(TRUE, "sha1=", Hmac("k1", body)),
   HeaderText(FALSE, "sha256=", Hmac("k1", body))}
SlackBodies ==
  {Body("object", "absent", "url_verification", ch, "absent", "absent") :
     ch \in {"absent", "c1"}}
  \cup {Body("object", "absent", ty, "absent", "absent", "absent") :
          ty \in {"absent", "app_rate_limited"}}
  \cup {Body("object", "absent", "event_callback", "absent", "object", et) :
          et \in {"absent", "message", "url_verification"}}
  \cup {Body("object", "absent", "event_callback", "absent", ev, "absent") :
          ev \in {"null", "string"}}
  \cup {Body("array", "absent", "absent", "absent", "absent", "absent"),
        Body("invalid", "absent", "absent", "absent", "absent", "absent")}

\* Values of the "action" member that are no JSON string: an array or an
\* object (unhashable in Python), null (None), a number.
JsonArray == "json:array"
JsonObject == "json:object"
JsonNull == "json:null"
JsonNumber == "json:number"
Unhashable == {JsonArray, JsonObject}
LinearActions ==
  {"absent", "create", "update", "remove", "archive", "issue_created", "unknown", "",
   JsonArray, JsonObject, JsonNull, JsonNumber}
LinearBodies ==
  {Body("object", act, "absent", "absent", "absent", "absent") : act \in LinearActions}
  \cup {Body("array", "absent", "absent", "absent", "absent", "absent"),
        Body("invalid", "absent", "absent", "absent", "absent", "absent")}

Requests ==
  {[endpoint |-> "linear", secret |-> k, sig |-> MissingHeader, ghEvent |-> "",
     body |-> b] : k \in Secrets, b \in LinearBodies}
  \cup
  {[endpoint |-> "github", secret |-> k, sig |-> h, ghEvent |-> e, body |-> b] :
     k \in Secrets, e \in GithubEvents,
     h \in UNION {SignatureHeaders(bb) : bb \in GithubBodies}, b \in GithubBodies}
  \cup {[endpoint |-> "slack", secret |-> k, sig |-> MissingHeader, ghEvent |-> "",
          body |-> b] : k \in Secrets, b \in SlackBodies}

\* github_webhook, lines 57-60: "github_" + event, and "_" + action when
\* the action is truthy.  A kind is the sequence of its parts.
GithubKind(ghEvent, action) ==
  IF action \in {"absent", ""} THEN <<"github", ghEvent>>
  ELSE <<"github", ghEvent, action>>

\* github_webhook (lines 46-64): the response, and the kinds on_event is
\* called with.  request.json() raises on a body that is no JSON and
\* body.get raises on a JSON value that is no object; an exception of the
\* endpoint is answered with 500.
GithubOutcome(req) ==
  LET v == IF req.secret # "" THEN VerifySignature(req.body, req.sig, req.secret)
           ELSE "skipped"
  IN  IF v = "false" THEN [resp |-> Response(401, <<"Invalid signature">>), kinds |-> <<>>]
      ELSE IF v = "TypeError" THEN [resp |-> Response(500, <<>>), kinds |-> <<>>]
      ELSE IF req.body.json # "object" THEN [resp |-> Response(500, <<>>), kinds |-> <<>>]
      ELSE LET kind == GithubKind(req.ghEvent, req.body.action)
           IN  [resp |-> Response(200, kind), kinds |-> <<kind>>]

\* linear_webhook, lines 36-41: event_map.get(action, f"linear_{action}").
\* A kind is the sequence of its parts: "linear_issue_created" is
\* <<"linear", "issue_created">>, the fallback <<"linear", action>>.
LinearKind(action) ==
  IF action = "create" THEN <<"linear", "issue_created">>
  ELSE IF action = "update" THEN <<"linear", "issue_updated">>
  ELSE IF action = "remove" THEN <<"linear", "issue_removed">>
  ELSE <<"linear", action>>

\* linear_webhook (lines 30-44).  body.get("action", "unknown") is the
\* member itself when it is present; dict.get on event_map raises TypeError
\* for a key that is unhashable (a list or a dict).
LinearOutcome(req) ==
  IF req.body.json # "object" THEN [resp |-> Response(500, <<>>), kinds |-> <<>>]
  ELSE LET action == IF req.body.action = "absent" THEN "unknown" ELSE req.body.action
       IN  IF action \in Unhashable THEN [resp |-> Response(500, <<>>), kinds |-> <<>>]
           ELSE [resp |-> Response(200, LinearKind(action)),
                 kinds |-> <<LinearKind(action)>>]

IsUrlVerification_Never(body) == FALSE

\* slack_webhook, line 71: body.get("type") == "url_verification"
IsUrlVerification(body) == body.type = "url_verification"

\* slack_webhook (lines 66-78).  body["challenge"] raises KeyError when the
\* member is missing; event_data.get raises when the "event" member is no
\* object.
SlackOutcome(req) ==
  IF req.body.json # "object" THEN [resp |-> Response(500, <<>>), kinds |-> <<>>]
  ELSE IF IsUrlVerification(req.body)
  THEN IF req.body.challenge = "absent"
       THEN [resp |-> Response(500, <<>>), kinds |-> <<>>]
       ELSE [resp |-> Response(200, <<"challenge", req.body.challenge>>), kinds |-> <<>>]
  ELSE IF req.body.event \in {"null", "string"}
  THEN [resp |-> Response(500, <<>>), kinds |-> <<>>]
  ELSE [resp |-> Response(200, <<"ok">>),
        kinds |-> <<(<<"slack", IF req.body.eventType = "absent" THEN "unknown"
                               ELSE req.body.eventType>>)>>]

\* The endpoint handles the request: on_event is awaited on each event
\* (recorded in routed), then the response is returned.
Serve(out, source) ==
  /\ response = NoResponse
  /\ response' = out.resp
  /\ routed' = routed \o [k \in 1..Len(out.kinds) |-> Event(nextId, out.kinds[k], source)]
  /\ nextId' = nextId + Len(out.kinds)
  /\ UNCHANGED <<cfgEnabled, max_retries, backoffNumeric, toolsCfg, evBudget, pollBudget,
                 agentClass, assignee_id, mergeVars, calcVars, implState, request>>
  /\ UNCHANGED <<agentVars, orchVars, cancelReq>>
  /\ UNCHANGED <<pushed, started, invCount, failCount, resolved, stopCalls,
                 closeCalls, starts, idlePushed, pollFails, offPush, slept>>

LinearWebhook ==
  /\ request.endpoint = "linear"
  /\ Serve(LinearOutcome(request), "linear")

GithubWebhook ==
  /\ request.endpoint = "github"
  /\ Serve(GithubOutcome(request), "github")

SlackWebhook ==
  /\ request.endpoint = "slack"
  /\ Serve(SlackOutcome(request), "slack")

\* create_app(webhook_secret, on_event) and one request.
InitWebhook ==
  /\ cfgEnabled = [a \in AgentNames |-> "false"]
  /\ max_retries = [a \in AgentNames |-> 1]
  /\ backoffNumeric = TRUE
  /\ toolsCfg = {}
  /\ evBudget = MaxEvents
  /\ pollBudget = 0
  /\ ClassInit /\ MergeInit /\ AgentInit /\ ImplInit /\ HistInit /\ OrchInit
  /\ agents = {}
  /\ runPc = "webhook"
  /\ request \in Requests
  /\ response = NoResponse

NextWebhook ==
  \/ LinearWebhook
  \/ GithubWebhook
  \/ SlackWebhook

\* The webhook endpoints, each on one request.
SpecWebhook == InitWebhook /\ [][NextWebhook]_vars

\* =============================================================== claims
Ids(seq) == {seq[k].id : k \in 1..Len(seq)}
InDispatch(a, i) == cur[a].id = i /\ elPc[a] \in {"handling", "backoff"}

\* C1: bounded retry.  An event whose dispatch ended in success was handled
\* by invocation number fails + 1, which is at most max_retries; an event
\* that was given up saw exactly max_retries invocations, all failed; an
\* event whose handler failed max_retries times is given up (unless the
\* except body itself faulted); no event is invoked more than max_retries
\* times, and a resolved event is not in dispatch again.
C1_BoundedRetry ==
  \A a \in agents : \A i \in EventIds :
    /\ invCount[a][i] <= max_retries[a]
    /\ resolved[a][i] = "handled" =>
         /\ invCount[a][i] = failCount[a][i] + 1
         /\ ~InDispatch(a, i)
    /\ resolved[a][i] = "abandoned" =>
         /\ invCount[a][i] = max_retries[a]
         /\ failCount[a][i] = max_retries[a]
         /\ ~InDispatch(a, i)
    /\ failCount[a][i] = max_retries[a] =>
         \/ resolved[a][i] = "abandoned"
         \/ elPc[a] = "faulted" /\ cur[a].id = i

\* C1 witness: with max_retries = 2, one event handled on its second
\* attempt and another given up after two failed attempts.
C1_Witness ==
  \E a \in agents : \E i, j \in EventIds :
    /\ max_retries[a] = 2
    /\ resolved[a][i] = "handled" /\ invCount[a][i] = 2 /\ failCount[a][i] = 1
    /\ resolved[a][j] = "abandoned" /\ invCount[a][j] = 2

\* C2: per-agent FIFO, one event at a time.  The events taken from the
\* queue are a prefix of the events pushed, in push order, whoever pushed
\* them; handle_event is invoked only on events taken from the queue, and
\* an event is taken only when every event taken before it is resolved.
C2_FifoSequential ==
  \A a \in agents :
    /\ Len(started[a]) <= Len(pushed[a])
    /\ \A k \in 1..Len(started[a]) : started[a][k] = pushed[a][k]
    /\ \A i \in EventIds : invCount[a][i] > 0 => i \in Ids(started[a])
    /\ \A j \in 1..Len(started[a]) : \A k \in 1..(j - 1) :
         resolved[a][started[a][k].id] # "none"

\* C2 witness: an event pushed by poll() and an event pushed by
\* _route_event, both dispatched, the second after two attempts on the first.
C2_Witness ==
  \E a \in agents :
    /\ Len(started[a]) = 2
    /\ {started[a][1].source, started[a][2].source} = {"poll", "github"}
    /\ invCount[a][started[a][1].id] = 2
    /\ invCount[a][started[a][2].id] > 0

\* C3: no event is dropped.  Every event taken from the queue is handled,
\* given up, or still in dispatch, whatever happens to the other tasks
\* (shutdown, a fault of the server or of a sibling loop).  A fault of the
\* event loop itself, in the middle of its own dispatch, is left aside.
C3_NoSilentDrop ==
  \A a \in agents : \A k \in 1..Len(started[a]) :
    \/ resolved[a][started[a][k].id] # "none"
    \/ InDispatch(a, started[a][k].id)
    \/ elPc[a] = "faulted" /\ cur[a] = started[a][k]

\* C4: one failure domain.  When run() has left its TaskGroup block, every
\* member of the group has ended and so have both loops of every agent; if
\* a member ended with a fault, run() raises.
MemberFaulted ==
  \/ srv = "faulted"
  \/ waiter = "raised"
  \/ \E a \in agents : startPc[a] = "raised"

C4_GroupTeardown ==
  runPc \in {"finally", "exited"} =>
    /\ \A t \in OuterMembers : OuterEnded(t)
    /\ \A a \in agents : LoopsDone(a)
    /\ MemberFaulted => runResult \in {"SystemExit", "ExceptionGroup"}

\* C4 witness: run() has exited after a server fault that ended the start()
\* of two agents and the waiter by cancellation.
C4_Witness ==
  /\ runPc = "exited"
  /\ srv = "faulted"
  /\ waiter = "cancelled"
  /\ Cardinality(agents) = 2
  /\ \A a \in agents : startPc[a] = "cancelled" /\ plPc[a] = "cancelled"
  /\ runResult = "ExceptionGroup"

\* C5: the two loops share one fate.  Once start() has ended after a loop
\* of its agent faulted, it has raised, both loops have ended, and status
\* is ERRORED until stop() is called.
C5_LoopFaultEscalates ==
  \A a \in agents :
    (startPc[a] \in StartEnded /\ (plPc[a] = "faulted" \/ elPc[a] = "faulted")) =>
      /\ startPc[a] = "raised"
      /\ LoopsDone(a)
      /\ stopCalls[a] = 0 => status[a] = ERRORED

\* C5 witness: the poll loop faulted, the event loop was cancelled in the
\* middle of a dispatch, and start() raised with status ERRORED.
C5_Witness ==
  \E a \in agents :
    /\ plPc[a] = "faulted"
    /\ elPc[a] = "cancelled"
    /\ startPc[a] = "raised"
    /\ status[a] = ERRORED

\* C6: graceful shutdown.  After a shutdown signal alone (no fault), an event
\* loop that has ended by cancellation was not in the middle of a dispatch:
\* the event it took last is handled or given up.
C6_InFlightHandlerCompletes ==
  (outBase /\ ~outErr) =>
    \A a \in agents :
      elPc[a] = "cancelled" =>
        \A k \in 1..Len(started[a]) : resolved[a][started[a][k].id] # "none"

\* C7: stop every agent, then close the toolbox, all after the group.  A
\* stop() or a close() is called only when every member of run()'s group
\* has ended; a close() only when every registered agent has been stopped;
\* and when run() exits, every agent was stopped once and every client
\* that exists was closed once.
C7_StopThenClose ==
  /\ (\E a \in agents : stopCalls[a] > 0) => GroupDone /\ \A a \in agents : LoopsDone(a)
  /\ (\E c \in DOMAIN closeCalls : closeCalls[c] > 0) =>
       /\ GroupDone
       /\ \A a \in agents : stopCalls[a] = 1 /\ status[a] = STOPPING
  /\ runPc = "exited" =>
       /\ \A a \in agents : stopCalls[a] = 1
       /\ \A c \in DOMAIN closeCalls : closeCalls[c] = (IF c \in toolsCfg THEN 1 ELSE 0)

\* C7 witness: run() has exited after a loop fault of one of two agents;
\* both were stopped and the two clients that exist were closed.
C7_Witness ==
  /\ runPc = "exited"
  /\ runResult = "ExceptionGroup"
  /\ Cardinality(agents) = 2
  /\ \E a \in agents : startPc[a] = "raised"
  /\ \A a \in agents : stopCalls[a] = 1
  /\ closeCalls["linear"] = 1 /\ closeCalls["slack"] = 1 /\ closeCalls["github"] = 0

\* C8 (as claimed): for any sequence of start(), stop() and loop faults,
\* status never returns to IDLE and never becomes RUNNING again once it has
\* been STOPPING or ERRORED.
C8_StatusMonotone ==
  [][\A a \in AgentNames :
       /\ status[a] # IDLE => status'[a] # IDLE
       /\ status[a] \in {STOPPING, ERRORED} => status'[a] # RUNNING]_vars

\* C8 (amended): status never returns to IDLE, and a STOPPING or ERRORED
\* agent becomes RUNNING again only by a further call of start().
C8_RestartOnlyByStart ==
  [][\A a \in AgentNames :
       /\ status[a] # IDLE => status'[a] # IDLE
       /\ (status[a] \in {STOPPING, ERRORED} /\ status'[a] = RUNNING) =>
            starts'[a] = starts[a] + 1]_vars

\* C8 witness: an agent that was stopped, whose start() returned, and that a
\* second start() made RUNNING again.
C8_Witness ==
  \E a \in agents :
    /\ starts[a] = 2
    /\ stopCalls[a] >= 1
    /\ status[a] = RUNNING
    /\ plPc[a] = "polling"

\* C9: broadcast.  Every event given to _route_event is, for every agent
\* whose entry is not disabled, exactly once among the events taken from
\* its queue or still in it; an agent whose entry has enabled = false is
\* not registered and nothing is ever queued for it.
Count(seq, ev) == Cardinality({k \in 1..Len(seq) : seq[k] = ev})

C9_RouteBroadcast ==
  \A a \in AgentNames :
    IF cfgEnabled[a] = "false"
    THEN a \notin agents /\ event_queue[a] = <<>> /\ pushed[a] = <<>>
    ELSE \A k \in 1..Len(routed) :
           Count(started[a] \o event_queue[a], routed[k]) = 1

\* C9 witness: one routed event, two registered agents (one registered by
\* a missing "enabled" key), the event queued for one and taken by the other.
C9_Witness ==
  /\ Len(routed) = 1
  /\ agents = {"product_manager", "developer"}
  /\ cfgEnabled["developer"] = "absent"
  /\ event_queue["developer"] = routed
  /\ started["product_manager"] = routed

\* C9 witness of the disabled case: an event was routed while an entry with
\* enabled = false exists, and one agent is registered.
C9_DisabledSeen ==
  /\ Len(routed) = 2
  /\ agents = {"product_manager"}
  /\ cfgEnabled["developer"] = "false"

\* The event loop resumes one of the tasks it holds whenever that task can
\* run.  The steps of one task are enabled one position at a time, so weak
\* fairness of their disjunction is the scheduling of that task.  A
\* handle_event invocation is assumed to end (by returning or by raising);
\* no fault and no call of the caller is required to happen.
PollTaskStep(a) ==
  \/ PollBegin(a) \/ PollPush(a) \/ PollEnd(a) \/ PollRaise(a)
  \/ PollWake(a) \/ PollCancelled(a)

EventTaskStep(a) ==
  \/ EventBegin(a) \/ EventDequeue(a) \/ EventTimeout(a)
  \/ HandlerReturn(a) \/ HandlerRaise(a) \/ BackoffDone(a)
  \/ EventCancelled(a)

AgentFairness ==
  \A a \in CallerAgents :
    /\ WF_vars(PollTaskStep(a))
    /\ WF_vars(EventTaskStep(a))
    /\ WF_vars(StartFinish(a))

\* BaseAgent driven by a direct caller, its tasks scheduled fairly.
SpecAgentFair == InitAgent /\ [][NextAgent]_vars /\ AgentFairness

\* C10 (as claimed): events pushed while the agent is IDLE are all
\* dispatched after start().  Here: when the first start() has returned
\* (both loops are over), every event pushed while IDLE has been given to
\* handle_event.
C10_AllIdlePushedDispatched ==
  \A a \in agents :
    (startPc[a] = "returned" /\ starts[a] = 1) =>
      \A i \in idlePushed[a] : invCount[a][i] > 0

\* C10 (amended): the events pushed while IDLE are the first of the pushed
\* events; events are taken from the queue in push order, each at most
\* once, and nothing is taken before start(); and an event pushed while IDLE
\* is eventually given to handle_event provided the agent stays RUNNING.
C10_IdlePushedDelivered ==
  /\ [](\A a \in agents :
          /\ pushed[a] = started[a] \o event_queue[a]
          /\ status[a] = IDLE => started[a] = <<>>
          /\ \A k \in 1..Len(pushed[a]) :
               pushed[a][k].id \in idlePushed[a] =>
                 \A j \in 1..k : pushed[a][j].id \in idlePushed[a])
  /\ \A a \in CallerAgents : \A i \in EventIds :
       (i \in idlePushed[a] /\ status[a] = RUNNING)
         ~> (invCount[a][i] > 0 \/ status[a] # RUNNING)

\* C10 witness: an event pushed while IDLE and an event pushed after
\* start() have both been taken, the IDLE one first, and the IDLE one has
\* been handled.
C10_Witness ==
  \E a \in agents :
    /\ Len(started[a]) = 2
    /\ started[a][1].id \in idlePushed[a]
    /\ started[a][2].id \notin idlePushed[a]
    /\ resolved[a][started[a][1].id] = "handled"
    /\ invCount[a][started[a][2].id] > 0

\* C11: a fault of poll() is caught.  A step in which poll() raises takes
\* the poll loop to its sleep and changes neither status, nor the group of
\* start() (no error recorded, no cancellation requested), nor the event
\* loop; and when the sleep ends with status RUNNING, poll() is invoked
\* again, however many calls have failed in a row.
C11_PollFaultCaught ==
  [][\A a \in AgentNames :
       /\ pollFails'[a] = pollFails[a] + 1 =>
            /\ plPc'[a] = "sleep"
            /\ status' = status /\ inErr' = inErr /\ cancelReq' = cancelReq
            /\ startPc' = startPc /\ elPc' = elPc
       /\ (plPc[a] = "sleep" /\ plPc'[a] # "sleep" /\ ~Pending(TPoll(a))) =>
            plPc'[a] = (IF status[a] = RUNNING THEN "polling" ELSE "done")]_vars

\* C11 witness: poll() is invoked for the third time after two calls in a
\* row raised; the agent is RUNNING and start() has recorded no error.
C11_Witness ==
  \E a \in agents :
    /\ pollFails[a] = MaxPollFails
    /\ plPc[a] = "polling"
    /\ status[a] = RUNNING
    /\ startPc[a] = "group" /\ ~inErr[a]

\* C12: stop() ends both loops.  While status is not RUNNING no poll() is
\* begun and the event loop does not go back to waiting on the queue; a
\* start() that has returned left both loops ended at their while test, with
\* status STOPPING; a start() that ended without a loop fault has returned;
\* and after stop() on an agent whose start() is running, start() ends.
C12_StopTerminates ==
  /\ [][\A a \in AgentNames :
          (status[a] # RUNNING /\ status'[a] # RUNNING) =>
            /\ plPc'[a] = "polling" => plPc[a] = "polling"
            /\ elPc'[a] = "wait" => elPc[a] = "wait"
            /\ Len(started'[a]) > Len(started[a]) => elPc[a] = "wait"]_vars
  /\ [](\A a \in agents :
          /\ startPc[a] = "returned" =>
               status[a] = STOPPING /\ plPc[a] = "done" /\ elPc[a] = "done"
          /\ (startPc[a] \in StartEnded /\ plPc[a] # "faulted" /\ elPc[a] # "faulted") =>
               startPc[a] = "returned")
  /\ \A a \in CallerAgents :
       (status[a] = STOPPING /\ startPc[a] = "group") ~> (startPc[a] \in StartEnded)

\* C12 witness: stop() was called while an event was in dispatch and another
\* was queued; the dispatch was completed, both loops ended at their while
\* test, the queued event was left, and start() returned with status STOPPING.
C12_Witness ==
  \E a \in agents :
    /\ startPc[a] = "returned"
    /\ status[a] = STOPPING
    /\ stopCalls[a] = 1 /\ starts[a] = 1
    /\ plPc[a] = "done" /\ elPc[a] = "done"
    /\ Len(started[a]) = 1 /\ resolved[a][started[a][1].id] # "none"
    /\ event_queue[a] # <<>>

\* C13: a fault of handle_event is not escalated.  With a numeric retry
\* backoff, a step in which handle_event raises leaves status, the error
\* record and the cancellations of start()'s group, start() itself and the
\* poll loop as they were, and the event loop stays in the dispatch or goes
\* back to its while test; the event loop never ends by a fault; and the
\* step that resolves an event (handled or given up) takes the event loop
\* back to the queue when status is RUNNING.
C13_HandlerFaultContained ==
  /\ [][\A a \in AgentNames : \A i \in EventIds :
          /\ (backoffNumeric /\ failCount'[a][i] = failCount[a][i] + 1) =>
               /\ status' = status /\ inErr' = inErr /\ cancelReq' = cancelReq
               /\ startPc' = startPc /\ plPc' = plPc
               /\ elPc'[a] \in {"backoff", "handling", EventLoopTop(a)}
               /\ elPc'[a] = EventLoopTop(a) =>
                    resolved'[a][i] = "abandoned" /\ failCount'[a][i] = max_retries[a]
          /\ (resolved[a][i] = "none" /\ resolved'[a][i] # "none") =>
               elPc'[a] = (IF status[a] = RUNNING THEN "wait" ELSE "done")]_vars
  /\ [](backoffNumeric => \A a \in agents : elPc[a] # "faulted")

\* C13 witness: with max_retries = 2 and a numeric backoff, handle_event
\* failed twice on the first event, which was given up; the agent is still
\* RUNNING with no error recorded and the next event is in dispatch.
C13_Witness ==
  \E a \in agents :
    /\ backoffNumeric /\ max_retries[a] = 2
    /\ Len(started[a]) = 2
    /\ resolved[a][started[a][1].id] = "abandoned"
    /\ failCount[a][started[a][1].id] = 2
    /\ elPc[a] = "handling" /\ cur[a] = started[a][2]
    /\ status[a] = RUNNING /\ ~inErr[a] /\ startPc[a] = "group"

\* C14 (first part, in both versions): a push_event call appends the event
\* to the tail of the agent's queue and changes no status.
PushAppends ==
  \A a \in AgentNames :
    Len(pushed'[a]) > Len(pushed[a]) =>
      /\ pushed'[a] = Append(pushed[a], pushed'[a][Len(pushed'[a])])
      /\ event_queue'[a] = Append(event_queue[a], pushed'[a][Len(pushed'[a])])
      /\ status' = status

\* C14 (as claimed, second part): an event pushed while status was not
\* RUNNING is given to handle_event only after a later start().
C14_NotRunningNotHandled ==
  \A a \in agents : \A i \in EventIds :
    invCount[a][i] > 0 => offPush[a][i] \notin {"dead", "window"}

\* C14 (amended): push_event appends to the tail in every status without
\* changing status or the queued events; an event pushed while the agent's
\* event loop was not running (not yet started, or ended) is given to
\* handle_event only after a later start(); in status IDLE and ERRORED the
\* event loop is not running.
C14_PushAlwaysQueues ==
  /\ [][PushAppends]_vars
  /\ [](\A a \in agents : \A i \in EventIds :
          /\ invCount[a][i] > 0 => offPush[a][i] # "dead"
          /\ offPush[a][i] # "no" => i \in Ids(pushed[a])
          /\ i \in idlePushed[a] => offPush[a][i] \in {"dead", "dead_started"})
  /\ [][\A a \in AgentNames : \A i \in EventIds :
          (offPush[a][i] = "no" /\ offPush'[a][i] = "window") =>
            status[a] = STOPPING]_vars

\* C14 witness: an event pushed after the loops had ended was handled after
\* a second start(); the loops ended again and another event, pushed then,
\* waits in the queue.
C14_Witness ==
  \E a \in agents : \E i, j \in EventIds :
    /\ offPush[a][i] = "dead_started" /\ i \notin idlePushed[a]
    /\ starts[a] = 2
    /\ resolved[a][i] = "handled"
    /\ offPush[a][j] = "dead" /\ event_queue[a] = <<Event(j, "github_push", "github")>>
    /\ status[a] = ERRORED

\* C15: the ToolBox is torn down once.  When run() has ended, in whatever
\* way, every client that was built has been closed exactly once and no
\* other close() was made.
C15_BundleClosedOnce ==
  runPc \in {"exited", "aborted"} =>
    \A c \in DOMAIN closeCalls : closeCalls[c] = (IF c \in toolsCfg THEN 1 ELSE 0)

\* The signature GitHub sends for the request: "sha256=" and the HMAC-SHA256
\* of the raw body under the configured secret.
ValidSignature(req) == HeaderText(TRUE, "sha256=", Hmac(req.secret, req.body))
GithubServed == request.endpoint = "github" /\ response # NoResponse
OneGithubEvent ==
  /\ Len(routed) = 1
  /\ routed[1].source = "github"
  /\ routed[1].kind[1] = "github" /\ routed[1].kind[2] = request.ghEvent
  /\ IF request.body.action \in {"absent", ""} THEN Len(routed[1].kind) = 2
     ELSE Len(routed[1].kind) = 3 /\ routed[1].kind[3] = request.body.action

SlackServed == request.endpoint = "slack" /\ response # NoResponse
OneSlackEvent == Len(routed) = 1 /\ routed[1].source = "slack"

\* C17 (as claimed): a url_verification payload is answered with its
\* challenge and routes nothing; every other payload routes exactly one
\* event of source slack.
C17_SlackChallenge ==
  (SlackServed /\ request.body.json = "object") =>
    IF request.body.type = "url_verification"
    THEN /\ routed = <<>>
         /\ request.body.challenge # "absent" =>
              response = Response(200, <<"challenge", request.body.challenge>>)
    ELSE OneSlackEvent

\* C17 (amended): a url_verification payload is answered with its challenge
\* and routes nothing; every other payload whose "event" member is absent or
\* an object routes exactly one event of source slack; one whose "event"
\* member is no object routes nothing and is answered 500.
C17_SlackChallengeObjectEvent ==
  (SlackServed /\ request.body.json = "object") =>
    IF request.body.type = "url_verification"
    THEN /\ routed = <<>>
         /\ request.body.challenge # "absent" =>
              response = Response(200, <<"challenge", request.body.challenge>>)
    ELSE IF request.body.event \in {"absent", "object"}
         THEN OneSlackEvent /\ response.code = 200
         ELSE routed = <<>> /\ response.code = 500

\* C17 witness: the handshake payload with challenge c1 was answered with
\* c1 and nothing was routed.
C17_Witness ==
  /\ SlackServed
  /\ request.body.type = "url_verification"
  /\ response = Response(200, <<"challenge", "c1">>)
  /\ routed = <<>>

\* ================================= concrete agents under a direct caller
\* The classes an entry of config/agents.yaml can name.
Classes == {"ProductManagerAgent", "DeveloperAgent", "BaseAgent"}
\* The event kinds the concrete agents act on.
ConcreteKinds == {"idea_submitted", "feedback_received", "ticket_assigned"}
\* (kind, payload shape) of the events pushed to the concrete agents
ConcretePushes ==
  {<<k, "full">> : k \in ConcreteKinds} \cup {<<"ticket_assigned", "id_list">>}

\* One agent of a given class, constructed and not started, with a bundle
\* that holds the tracker and chat clients or no client at all.  The agent
\* of an unknown subclass runs with a retry backoff that is no number.
InitConcrete ==
  /\ cfgEnabled = [product_manager |-> "true", developer |-> "false"]
  /\ \E c \in Classes : agentClass = [a \in AgentNames |-> c]
  /\ max_retries = [a \in AgentNames |-> MaxRetryCfg]
  /\ backoffNumeric = (agentClass["product_manager"] # "BaseAgent")
  /\ toolsCfg \in IF agentClass["product_manager"] = "BaseAgent"
                  THEN {{}} ELSE {{}, {"linear", "slack"}}
  /\ evBudget = IF agentClass["product_manager"] = "BaseAgent"
                THEN MaxEvents - 1 ELSE MaxEvents
  /\ pollBudget = MaxPollFails - 1
  /\ MergeInit /\ AgentInit /\ ImplInit /\ HistInit /\ OrchInit /\ WebInit
  /\ agents = CallerAgents
  /\ runPc = "caller"

NextConcrete ==
  \/ \E a \in AgentNames : a \in agents /\ ApiStart(a)
  \/ \E a \in AgentNames : a \in agents /\ ApiStop(a)
  \/ \E a \in AgentNames, k \in ConcretePushes :
       a \in agents /\ ApiPushPayload(a, k[1], "api", k[2])
  \/ \E a \in AgentNames : AgentStep(a)

\* ProductManagerAgent and DeveloperAgent driven by a direct caller.
SpecConcrete == InitConcrete /\ [][NextConcrete]_vars

Concrete(a) == agentClass[a] \in {"ProductManagerAgent", "DeveloperAgent"}

\* C18: with the tracker client absent from the bundle, no invocation of
\* handle_event of a concrete agent raises, and no event is abandoned.
C18_AbsenceNeverFails ==
  \A a \in agents : (Concrete(a) /\ ~HasTool("linear")) =>
    \A i \in EventIds : failCount[a][i] = 0 /\ resolved[a][i] # "abandoned"

\* C19: with the tracker client absent, poll() of a concrete agent never
\* raises and never pushes an event, and the step in which it returns leaves
\* the agent's queue, its cached team id and its active tickets as they were.
C19_PollNoOp ==
  [][\A a \in agents : (Concrete(a) /\ ~HasTool("linear")) =>
       /\ pollFails'[a] = 0
       /\ \A k \in 1..Len(pushed'[a]) : pushed'[a][k].source # "poll"
       /\ (plPc[a] = "polling" /\ plPc'[a] = "sleep") =>
            /\ event_queue'[a] = event_queue[a]
            /\ pushed'[a] = pushed[a]
            /\ team_id'[a] = team_id[a]
            /\ active_tickets'[a] = active_tickets[a]]_vars

\* poll() of a concrete agent without tracker client has returned while an
\* event was waiting in the agent's queue.
C19_Witness ==
  \E a \in agents :
    /\ Concrete(a) /\ ~HasTool("linear")
    /\ plPc[a] = "sleep" /\ pollFails[a] = 0
    /\ event_queue[a] # <<>> /\ team_id[a] = "None"

\* ============================================ configuration merge
\* The keys and values of agents.yaml looked at.
Keys == {"poll_interval_seconds", "max_retries", "linear_team_key"}
ConfigValues == {10, 20}
\* The dicts with keys in K.
Dicts(K) == UNION {[S -> ConfigValues] : S \in SUBSET K}

\* d.get(k, default)
Get(d, k, default) == IF k \in DOMAIN d THEN d[k] ELSE default

\* {**a, **b}: the items of a, replaced and extended by those of b.
Update(a, b) == [k \in DOMAIN a \cup DOMAIN b |-> IF k \in DOMAIN b THEN b[k] ELSE a[k]]

\* _instantiate_agents line 64: {**defaults, **agent_cfg.get("config", {}),
\* **{"poll_interval_seconds": agent_cfg.get("poll_interval_seconds", 30)}}.
\* entry is agent_cfg.get("config", {}), top the other members of agent_cfg.
Merged(defaults, entry, top) ==
  Update(Update(defaults, entry),
         [k \in {"poll_interval_seconds"} |-> Get(top, "poll_interval_seconds", 30)])

\* _instantiate_agents (lines 58-68): every entry that is not disabled is
\* constructed with its merged config and registered.
InstantiateAgents ==
  /\ runPc = "bootstrap"
  /\ agents = {}
  /\ agents' = Registered(cfgEnabled)
  /\ merged' = [a \in AgentNames |->
       IF a \in Registered(cfgEnabled)
       THEN Merged(config.defaults, config.entry[a], config.top[a]) ELSE merged[a]]
  /\ runPc' = "instantiated"
  /\ UNCHANGED <<cfgEnabled, max_retries, backoffNumeric, toolsCfg, evBudget, pollBudget,
                 agentClass, assignee_id, config, calcVars, webVars, implState>>
  /\ UNCHANGED <<agentVars, srv, waiter, shutdown, outErr, outBase, runResult,
                 stopIdx, closeIdx, cancelReq, histVars>>

\* A config file: a defaults layer, an entry for product_manager with its
\* own "config" and possibly a poll_interval_seconds of its own, and an
\* entry for developer that sets nothing.
InitMerge ==
  /\ cfgEnabled \in [AgentNames -> {"true", "absent", "false"}]
  /\ max_retries = [a \in AgentNames |-> 1]
  /\ backoffNumeric = TRUE
  /\ toolsCfg = {}
  /\ evBudget = MaxEvents
  /\ pollBudget = 0
  /\ \E d \in Dicts(Keys), e \in Dicts(Keys), t \in Dicts({"poll_interval_seconds"}) :
       config = [defaults |-> d,
                 entry |-> [a \in AgentNames |-> IF a = "product_manager" THEN e ELSE <<>>],
                 top |-> [a \in AgentNames |-> IF a = "product_manager" THEN t ELSE <<>>]]
  /\ merged = [a \in AgentNames |-> <<>>]
  /\ calcIn = NoCall
  /\ calcOut = NoResult
  /\ ClassInit /\ AgentInit /\ ImplInit /\ HistInit /\ OrchInit /\ WebInit
  /\ agents = {}
  /\ runPc = "bootstrap"

NextMerge == InstantiateAgents

\* _instantiate_agents on one config file.
SpecMerge == InitMerge /\ [][NextMerge]_vars

\* C20: the config an enabled agent is constructed with holds, for every
\* key, the value its entry gives (beside or inside its "config") when it
\* gives one, and otherwise the value of the defaults layer when that has one.
C20_MergedConfig ==
  \A a \in agents : \A k \in Keys :
    IF k \in DOMAIN config.top[a]
    THEN k \in DOMAIN merged[a] /\ merged[a][k] = config.top[a][k]
    ELSE IF k \in DOMAIN config.entry[a]
    THEN k \in DOMAIN merged[a] /\ merged[a][k] = config.entry[a][k]
    ELSE k \in DOMAIN config.defaults =>
           k \in DOMAIN merged[a] /\ merged[a][k] = config.defaults[k]

\* The part that holds: every key but poll_interval_seconds is merged in
\* layers, and poll_interval_seconds is the entry's own value or 30.
MergedLayered ==
  \A a \in agents :
    /\ \A k \in Keys \ {"poll_interval_seconds"} :
         IF k \in DOMAIN config.entry[a]
         THEN k \in DOMAIN merged[a] /\ merged[a][k] = config.entry[a][k]
         ELSE IF k \in DOMAIN config.defaults
         THEN k \in DOMAIN merged[a] /\ merged[a][k] = config.defaults[k]
         ELSE k \notin DOMAIN merged[a]
    /\ merged[a]["poll_interval_seconds"] = Get(config.top[a], "poll_interval_seconds", 30)

LinearServed == request.endpoint = "linear" /\ response # NoResponse

\* C21: a request to the tracker endpoint (a JSON object) routes exactly one
\* event of source linear, whatever the value of its action member: create,
\* update and remove give linear_issue_created / _updated / _removed, a
\* missing action linear_unknown, any other value a the kind linear_ + a.
C21_LinearKinds ==
  (LinearServed /\ request.body.json = "object") =>
    /\ Len(routed) = 1
    /\ routed[1].source = "linear"
    /\ routed[1].kind =
         (IF request.body.action = "create" THEN <<"linear", "issue_created">>
          ELSE IF request.body.action = "update" THEN <<"linear", "issue_updated">>
          ELSE IF request.body.action = "remove" THEN <<"linear", "issue_removed">>
          ELSE IF request.body.action = "absent" THEN <<"linear", "unknown">>
          ELSE <<"linear", request.body.action>>)

\* The part that holds: the same for every action that is absent, a string,
\* null or a number.
LinearHashableKinds ==
  (LinearServed /\ request.body.json = "object" /\ request.body.action \notin Unhashable)
    => (Len(routed) = 1 /\ routed[1].source = "linear"
        /\ routed[1].kind = LinearKind(IF request.body.action = "absent" THEN "unknown"
                                       ELSE request.body.action))

\* ========================================================= calculator.py
\* int + float, int * float, int / float: the int is converted to float
\* first, which raises OverflowError when it is too large.
IntTooLarge(x) == x.t = "int" /\ Abs(x.h) > 2 * FloatMax
BothInt(a, b) == a.t = "int" /\ b.t = "int"

\* The float of (twice the) value h: an infinity beyond the largest float.
FloatOf(h) ==
  IF h > 2 * FloatMax THEN Inf
  ELSE IF h < 0 - 2 * FloatMax THEN NegInf ELSE Num("float", h)

\* n / d rounded to the nearest integer, ties to the even one (d # 0).
Round(n, d) ==
  LET nn == IF d < 0 THEN 0 - n ELSE n
      dd == Abs(d)
      q == nn \div dd
      r == nn - q * dd
  IN  IF 2 * r < dd THEN q
      ELSE IF 2 * r > dd THEN q + 1
      ELSE IF q % 2 = 0 THEN q ELSE q + 1

\* The operator + - * on two numbers: exact on ints, rounded and saturated
\* on floats.
Arith(a, b, h, exactInt) ==
  IF BothInt(a, b) THEN Returned(Num("int", exactInt))
  ELSE IF IntTooLarge(a) \/ IntTooLarge(b) THEN Raised("OverflowError")
  ELSE Returned(FloatOf(h))

\* a / b (true division): ZeroDivisionError on a zero divisor; on two ints
\* the correctly rounded quotient, OverflowError when it is no float.
TrueDiv(a, b) ==
  IF b.h = 0 THEN Raised("ZeroDivisionError")
  ELSE IF BothInt(a, b)
  THEN (IF Abs(Round(2 * a.h, b.h)) > 2 * FloatMax THEN Raised("OverflowError")
        ELSE Returned(Num("float", Round(2 * a.h, b.h))))
  ELSE IF IntTooLarge(a) \/ IntTooLarge(b) THEN Raised("OverflowError")
  ELSE Returned(FloatOf(Round(2 * a.h, b.h)))

\* calculator.py lines 4-13.
add(a, b) == Arith(a, b, a.h + b.h, a.h + b.h)
subtract(a, b) == Arith(a, b, a.h - b.h, a.h - b.h)
multiply(a, b) == Arith(a, b, Round(a.h * b.h, 2), (a.h * b.h) \div 2)

\* Variant: only the int 0 is taken for zero.
IsZero_IntOnly(b) == b.t = "int" /\ b.h = 0

\* divide, line 17: "b == 0" (true of 0, 0.0 and -0.0).
IsZero(b) == b.h = 0

\* calculator.py lines 16-19.
divide(a, b) == IF IsZero(b) THEN Raised("ValueError") ELSE TrueDiv(a, b)

\* OPERATIONS[operation](a, b), lines 22-27.
OPERATIONS(op, a, b) ==
  CASE op = "add" -> add(a, b)
    [] op = "subtract" -> subtract(a, b)
    [] op = "multiply" -> multiply(a, b)
    [] op = "divide" -> divide(a, b)

\* The arguments looked at: the ints and the finite floats up to twice the
\* largest float.
Ints == {Num("int", 2 * n) : n \in (0 - 2 * FloatMax)..(2 * FloatMax)}
Floats == {Num("float", h) : h \in (0 - 2 * FloatMax)..(2 * FloatMax)}
Numbers == Ints \cup Floats

\* One call of one operation.
Call ==
  /\ calcIn # NoCall
  /\ calcOut = NoResult
  /\ calcOut' = OPERATIONS(calcIn.op, calcIn.a, calcIn.b)
  /\ UNCHANGED <<cfgEnabled, max_retries, backoffNumeric, toolsCfg, evBudget, pollBudget,
                 agentClass, assignee_id, mergeVars, calcIn, webVars, implState>>
  /\ UNCHANGED <<agentVars, orchVars, cancelReq, histVars>>

InitCalc ==
  /\ cfgEnabled = [a \in AgentNames |-> "false"]
  /\ max_retries = [a \in AgentNames |-> 1]
  /\ backoffNumeric = TRUE
  /\ toolsCfg = {}
  /\ evBudget = MaxEvents
  /\ pollBudget = 0
  /\ config = NoConfig
  /\ merged = [a \in AgentNames |-> <<>>]
  /\ \E op \in {"add", "subtract", "multiply", "divide"}, a \in Numbers, b \in Numbers :
       calcIn = [op |-> op, a |-> a, b |-> b]
  /\ calcOut = NoResult
  /\ ClassInit /\ AgentInit /\ ImplInit /\ HistInit /\ OrchInit /\ WebInit
  /\ agents = {}
  /\ runPc = "calculator"

NextCalc == Call

\* The four operations of calculator.py, each on every pair of arguments.
SpecCalc == InitCalc /\ [][NextCalc]_vars

Called(op) == calcIn.op = op /\ calcOut # NoResult

\* r is the float a / b: the float nearest to the quotient, or the infinity
\* of its sign when the quotient is beyond the largest float.
IsQuotient(r, a, b) ==
  /\ r.t = "float"
  /\ IF Abs(r.h) = InfH
     THEN /\ Abs(a.h) > FloatMax * Abs(b.h)
          /\ (r.h > 0) = ((a.h > 0) = (b.h > 0))
     ELSE 2 * Abs(r.h * b.h - 2 * a.h) <= Abs(b.h)

\* C22 (as claimed): divide raises ValueError whenever b == 0 and returns
\* the quotient a / b without raising whenever b # 0; add, subtract and
\* multiply never raise.
C22_Calculator ==
  /\ Called("divide") =>
       IF calcIn.b.h = 0 THEN calcOut.kind = "ValueError"
       ELSE calcOut.kind = "value" /\ IsQuotient(calcOut.val, calcIn.a, calcIn.b)
  /\ (\E op \in {"add", "subtract", "multiply"} : Called(op)) => calcOut.kind = "value"

\* The call raised because an int is beyond the floats: an int argument of
\* a mixed operation, or the quotient of two ints.
IntBeyondFloat(op, a, b) ==
  IF BothInt(a, b) THEN op = "divide" /\ Abs(a.h) > FloatMax * Abs(b.h)
  ELSE IntTooLarge(a) \/ IntTooLarge(b)

\* C22 (amended): divide raises ValueError exactly when b == 0, for every a;
\* for b # 0 it returns the quotient a / b, and so do add, subtract and
\* multiply return, except that OverflowError is raised when an int is
\* beyond the floats; two floats, and two ints for + - *, never raise.
C22_CalculatorInRange ==
  /\ Called("divide") =>
       /\ (calcOut.kind = "ValueError") = (calcIn.b.h = 0)
       /\ calcIn.b.h # 0 =>
            /\ calcOut.kind \in {"value", "OverflowError"}
            /\ calcOut.kind = "value" => IsQuotient(calcOut.val, calcIn.a, calcIn.b)
  /\ calcOut # NoResult =>
       /\ calcOut.kind = "OverflowError" => IntBeyondFloat(calcIn.op, calcIn.a, calcIn.b)
       /\ calcOut.kind \notin {"ZeroDivisionError"}
  /\ (\E op \in {"add", "subtract", "multiply"} : Called(op)) =>
       /\ calcOut.kind \in {"value", "OverflowError"}
       /\ (BothInt(calcIn.a, calcIn.b) \/ (calcIn.a.t = "float" /\ calcIn.b.t = "float"))
            => calcOut.kind = "value"
  /\ (Called("add") /\ BothInt(calcIn.a, calcIn.b)) =>
       calcOut.val = Num("int", calcIn.a.h + calcIn.b.h)
  /\ (Called("multiply") /\ BothInt(calcIn.a, calcIn.b)) =>
       2 * calcOut.val.h = calcIn.a.h * calcIn.b.h

\* divide(-6, 3) has returned -2.0.
C22_Witness ==
  /\ Called("divide")
  /\ calcIn.a = Num("int", 0 - 12) /\ calcIn.b = Num("int", 6)
  /\ calcOut = Returned(Num("float", 0 - 4))

\* ============================== one event, more attempts (direct caller)
\* One agent and one event, with max_retries up to MaxRetryDeep: the runs
\* in which the dispatcher sleeps more than once for the same event.
InitRetry ==
  /\ cfgEnabled = [product_manager |-> "true", developer |-> "false"]
  /\ \E n \in 1..MaxRetryDeep : max_retries = [a \in AgentNames |-> n]
  /\ backoffNumeric \in IF max_retries["product_manager"] = MaxRetryDeep THEN BOOLEAN ELSE {TRUE}
  /\ toolsCfg = {}
  /\ evBudget = MaxEvents - 1
  /\ pollBudget = IF max_retries["product_manager"] = 1 THEN MaxPollFails - 1 ELSE 0
  /\ ClassInit /\ MergeInit /\ AgentInit /\ ImplInit /\ HistInit /\ OrchInit /\ WebInit
  /\ agents = CallerAgents
  /\ runPc = "caller"

\* BaseAgent driven by a direct caller, on one event.
SpecRetry == InitRetry /\ [][NextAgent]_vars

\* 1 + 2 + ... + n
Triangle(n) == (n * (n + 1)) \div 2

\* C23: with a numeric retry_backoff, the step in which attempt k fails
\* begins a sleep of retry_backoff * k when k < max_retries and begins no
\* sleep when k = max_retries; attempt k + 1 is made from the end of that
\* sleep only; no other step sleeps; and an abandoned event has cost
\* retry_backoff * (1 + ... + (max_retries - 1)) of backoff in all.
C23_LinearBackoff ==
  [][\A a \in agents : \A i \in EventIds :
       /\ (backoffNumeric /\ failCount'[a][i] = failCount[a][i] + 1) =>
            IF attempt[a] < max_retries[a]
            THEN /\ elPc'[a] = "backoff"
                 /\ slept'[a][i] = slept[a][i] + RetryBackoff * attempt[a]
                 /\ invCount'[a][i] = invCount[a][i]
            ELSE /\ elPc'[a] # "backoff"
                 /\ slept'[a][i] = slept[a][i]
                 /\ resolved'[a][i] = "abandoned"
       /\ failCount'[a][i] = failCount[a][i] => slept'[a][i] = slept[a][i]
       /\ (invCount'[a][i] = invCount[a][i] + 1 /\ attempt'[a] > 1) =>
            (elPc[a] = "backoff" /\ attempt'[a] = attempt[a] + 1)
       /\ resolved'[a][i] = "abandoned" =>
            slept'[a][i] = RetryBackoff * Triangle(max_retries[a] - 1)]_vars

\* An event was abandoned after three failed attempts and two sleeps, of
\* retry_backoff and of twice retry_backoff.
C23_Witness ==
  \E a \in agents : \E i \in EventIds :
    /\ max_retries[a] = 3 /\ resolved[a][i] = "abandoned"
    /\ failCount[a][i] = 3 /\ slept[a][i] = 3 * RetryBackoff

\* C24: no event blocks the queue beyond its own retry budget.  An event in
\* dispatch has had at most max_retries invocations and at most the backoff
\* sleeps between them; the step that resolves it (handled or given up) takes
\* the event loop back to its while test; and while the agent stays RUNNING,
\* an event in its queue is eventually resolved, whatever the handler does
\* with the events before it.
C24_QueueProgress ==
  /\ [](\A a \in agents : \A i \in EventIds :
          /\ invCount[a][i] <= max_retries[a]
          /\ slept[a][i] <= RetryBackoff * Triangle(max_retries[a] - 1))
  /\ [][\A a \in agents : \A i \in EventIds :
          (resolved[a][i] = "none" /\ resolved'[a][i] # "none") =>
            elPc'[a] = (IF status[a] = RUNNING THEN "wait" ELSE "done")]_vars
  /\ \A a \in CallerAgents : \A i \in EventIds :
       (status[a] = RUNNING /\ i \in Ids(event_queue[a]))
         ~> (resolved[a][i] # "none" \/ status[a] # RUNNING)

\* The event at the head of the queue was given up after max_retries failed
\* attempts, and the event behind it was then taken and handled, the agent
\* RUNNING throughout (stop() never called).
C24_Witness ==
  \E a \in agents :
    /\ status[a] = RUNNING /\ stopCalls[a] = 0 /\ starts[a] = 1
    /\ max_retries[a] = MaxRetryCfg
    /\ Len(started[a]) = 2
    /\ resolved[a][started[a][1].id] = "abandoned"
    /\ failCount[a][started[a][1].id] = max_retries[a]
    /\ resolved[a][started[a][2].id] = "handled"

TicketEvents(a, strict) ==
  {pushed[a][k] : k \in {n \in 1..Len(pushed[a]) :
      /\ pushed[a][n].kind = "ticket_assigned"
      /\ pushed[a][n].payload \in (IF strict THEN {"full"} ELSE Payloads)}}

\* What the claim says of the events in T: no invocation of handle_event has
\* raised, there has been at most one, exactly one for a handled event, none
\* is abandoned, and the ticket id is in _active_tickets only while the
\* handler runs.
TicketHandledOnce(a, T) ==
  \A ev \in T :
    /\ failCount[a][ev.id] = 0
    /\ invCount[a][ev.id] <= 1
    /\ resolved[a][ev.id] # "abandoned"
    /\ resolved[a][ev.id] = "handled" => invCount[a][ev.id] = 1
    /\ ev.id \in active_tickets[a] => (elPc[a] = "handling" /\ cur[a] = ev)

\* C27 as stated: for every ticket_assigned event with id, identifier and
\* title in its payload, DeveloperAgent.handle_event never raises, is invoked
\* exactly once, the event is never retried or abandoned, and the ticket id
\* has left _active_tickets when the handler has returned.
C27_TicketNeverRaises ==
  \A a \in agents : agentClass[a] = "DeveloperAgent" =>
    TicketHandledOnce(a, TicketEvents(a, FALSE))

\* C27, for payloads whose id is a string: handle_event never raises, is
\* invoked exactly once, the event is never retried or abandoned, and the
\* ticket id is in _active_tickets only during that one invocation.
C27_StringIdNeverRaises ==
  \A a \in agents : agentClass[a] = "DeveloperAgent" =>
    TicketHandledOnce(a, TicketEvents(a, TRUE))

\* A DeveloperAgent with retries configured has handled a ticket_assigned
\* event with a string id in one invocation, and the set is empty again.
C27_Witness ==
  \E a \in agents, i \in EventIds :
    /\ agentClass[a] = "DeveloperAgent" /\ max_retries[a] >= 2
    /\ \E ev \in TicketEvents(a, TRUE) : ev.id = i
    /\ resolved[a][i] = "handled" /\ invCount[a][i] = 1 /\ failCount[a][i] = 0
    /\ active_tickets[a] = {}

====
